---- MODULE Spec2Model ----
(***************************************************************************)
(* Model of the FakerBeat mastering session (src/unnamed/part_000, the     *)
(* App component) and of the pure helpers of src/services/audioUtils.ts.   *)
(*                                                                         *)
(* Units.  Levels in dB are integers counting hundredths of a dB           *)
(* (-0.1 dB is -10), stereo correlation counts hundredths (0.95 is 95),    *)
(* saturation and stereo width are percentages.  Audio samples are         *)
(* rationals n / SampleDen held as their numerator n.                      *)
(***************************************************************************)
EXTENDS Integers, Sequences, FiniteSets, TLC

VARIABLES
    \* ---- bufferToWave (audioUtils.ts:4-53) ----
    abuffer,        \* the AudioBuffer handed to bufferToWave
    wavDone,        \* bufferToWave has returned
    wavBlob,        \* the bytes of the returned Blob (byte offset k is wavBlob[k+1])
    \* ---- detectBPM (audioUtils.ts:152-224) ----
    bpmIn,          \* sample rate and the rendered low-passed slice
    bpmDone,
    bpmOut,
    \* ---- calculateProductionScore (audioUtils.ts:126-138) ----
    scoreIn,        \* the AudioStats argument
    scoreDone,
    scoreOut,
    scoreCalls,     \* number of calls made with scoreIn
    \* ---- the mid/side matrix of setupAudioGraph (part_000:239-290) ----
    msIn,           \* splitter outputs L and R and the stereoWidth setting
    msDone,
    msOut,          \* merger inputs 0 and 1
    \* ---- analyzeKeyReal (audioUtils.ts:228-266) ----
    keyIn,          \* sample rate and the best autocorrelation offset, -1 for none
    keyDone,
    keyOut,
    \* ---- the playhead (part_000:36, 69-70, 367-453) ----
    currentTime,    \* the displayed playhead, in 1/TimeDen s
    startOffsetRef,
    startTimeRef,
    ctxTime,        \* AudioContext.currentTime
    nav,            \* closure of the pending handleChatSubmit: what jumpBars and playAudio read
    jumped,         \* direction of the jump made by the last handler, 0 for none
    \* ---- the slice of detectBPM (audioUtils.ts:154-173) ----
    sliceIn,        \* length and sample rate of the buffer
    sliceDone,
    sliceOut,       \* startSample, endSample and the range of indices read from the buffer
    \* ---- calculateAudioStats (audioUtils.ts:55-124) ----
    statsIn,        \* the AudioBuffer argument
    statsDone,
    statsOut,       \* the returned AudioStats and the range of indices read
    \* ---- makeDistortionCurve, one entry of the table (audioUtils.ts:140-150) ----
    curveIn,        \* the drive amount and the index looked at
    curveDone,
    curveOut,       \* the entries computed
    \* ---- the meter throttle of updateTime (part_000:71, 377-395) ----
    now,            \* performance.now() at the last animation frame, in ms
    lastMeterUpdateRef,
    meterIn,        \* the levels of the window the last meter update read
    \* ---- App component state (part_000:29-62) ----
    appState,
    fileName,       \* the file whose name is displayed, 0 for ''
    stats,          \* AudioStats of a file, file = 0 for null
    score,
    isPlaying,
    isBypassed,
    liveStats,
    settings,
    isChatLoading,
    bpm,
    key,
    \* ---- App component refs (part_000:64-73) ----
    audioContextRef,    \* TRUE once the AudioContext exists
    sourceNodeRef,      \* id of the referenced source node, 0 for null
    originalBufferRef,  \* the file whose decoded buffer is held, 0 for null
    analyserRef,        \* id of the graph whose analyser is referenced, 0 for null
    graphRef,           \* id of the referenced graph, 0 for null
    meterSmoothingRef,
    \* ---- Web Audio objects ----
    liveSources,    \* source nodes started and not stopped: [id, to], to = 0 is ctx.destination
    graphs,         \* the graph instances still referenced, by id
    rendering,      \* ids of the offline graphs whose startRendering() is pending
    \* ---- async handlers between their awaits ----
    upload,         \* handleFileUpload: position, file and the closure's settings
    chat,           \* handleChatSubmit: the closure captured at submit
    \* ---- what happened so far ----
    estimators,     \* whether detectBPM and analyzeKeyReal failed (threw or found nothing)
                    \* in the load in progress or last done
    tapSilent,      \* every window read from the analyser so far was all zeros
    \* ---- bookkeeping of the bounds ----
    settingsWrites,
    meterUpdates,
    steps           \* handler runs so far

matrixVars == <<msIn, msDone, msOut>>

keyVars == <<keyIn, keyDone, keyOut>>

playheadVars == <<currentTime, startOffsetRef, startTimeRef, ctxTime, nav, jumped>>

sliceVars == <<sliceIn, sliceDone, sliceOut>>

statsVars == <<statsIn, statsDone, statsOut>>

curveVars == <<curveIn, curveDone, curveOut>>

meterVars == <<now, lastMeterUpdateRef, meterIn>>

\* the variables of the specifications written after the first ones
extraVars == <<playheadVars, sliceVars, statsVars, curveVars, meterVars>>

coreUtilVars == <<abuffer, wavDone, wavBlob, bpmIn, bpmDone, bpmOut, scoreIn, scoreDone,
                  scoreOut, scoreCalls, matrixVars, keyVars>>

utilVars == <<coreUtilVars, extraVars>>

analysisVars == <<bpm, key, estimators>>

stateVars == <<appState, fileName, stats, score, isPlaying, isBypassed, liveStats, settings,
               isChatLoading, analysisVars>>

refVars == <<audioContextRef, sourceNodeRef, originalBufferRef, analyserRef, graphRef,
             meterSmoothingRef>>

audioVars == <<liveSources, graphs, rendering>>

sessionVars == <<stateVars, refVars, audioVars, upload, chat, tapSilent, settingsWrites,
                 meterUpdates, steps>>

vars == <<utilVars, sessionVars>>

(***************************************************************************)
(* Bounds of the model                                                     *)
(***************************************************************************)
\* longest rendered buffer handed to bufferToWave, in frames
MaxFrames == 46
\* samples are the rationals n / SampleDen
SampleDen == 4
\* number of stride points of the rendered slice scanned by detectBPM
MaxStridePoints == 9

Min(a, b) == IF a < b THEN a ELSE b
Max(a, b) == IF a > b THEN a ELSE b

\* x | 0 and integer conversion of a quotient: truncation toward zero
TruncDiv(n, d) == IF n >= 0 THEN n \div d ELSE -((-n) \div d)

(***************************************************************************)
(* bufferToWave                                                            *)
(***************************************************************************)
SampleRates == {44100, 48000}

\* Float32 channel data of a test buffer: frame i of channel c, as numerator.
\* The values run over [-(SampleDen+1), SampleDen+1], so some lie outside [-1,1].
ChannelSample(seed, c, i) == ((i * 3 + c * 5 + seed) % (2 * SampleDen + 3)) - (SampleDen + 1)

MakeBuffer(nch, sr, len, seed) ==
    [numberOfChannels |-> nch, sampleRate |-> sr, length |-> len,
     channels |-> [c \in 0..(nch - 1) |-> [i \in 0..(len - 1) |-> ChannelSample(seed, c, i)]]]

NoBuffer == MakeBuffer(1, 44100, 0, 0)

WaveInputs == { MakeBuffer(nch, sr, len, seed) :
                    nch \in {1, 2}, sr \in SampleRates, len \in 0..MaxFrames, seed \in {0, 1} }

\* DataView.setUint8 on the byte sequence
setByte(view, pos, b) == [view EXCEPT ![pos + 1] = b % 256]

\* view.setUint16(pos, data, true)
viewSetUint16(view, pos, data) ==
    LET d == data % 65536
    IN  setByte(setByte(view, pos, d % 256), pos + 1, d \div 256)

\* view.setUint32(pos, data, true)
\* (the 32-bit word is written as its two 16-bit halves)
viewSetUint32(view, pos, data) ==
    viewSetUint16(viewSetUint16(view, pos, data % 65536), pos + 2, (data \div 65536) % 65536)

\* view.setInt16(pos, data, true): two's complement, little endian
viewSetInt16(view, pos, data) == viewSetUint16(view, pos, data % 65536)

getUint16(view, pos) == view[pos + 1] + 256 * view[pos + 2]
getUint32(view, pos) == getUint16(view, pos) + 65536 * getUint16(view, pos + 2)
getInt16(view, pos) ==
    LET u == getUint16(view, pos) IN IF u >= 32768 THEN u - 65536 ELSE u

\* The header writes of lines 25-37 as <<width, value>> in order; each write
\* advances pos by its width (setUint16 / setUint32 closures, lines 15-23).
\* The data length word is length - pos - 4 with pos = 40 at that write.
HeaderWritesBad(abuf, length) ==
    << <<4, 1179011410>>, <<4, length - 8>>, <<4, 1163280727>>, <<4, 544501094>>,
       <<4, 16>>, <<2, 1>>, <<2, abuf.numberOfChannels>>, <<4, abuf.sampleRate>>,
       <<4, abuf.sampleRate * 2 * abuf.numberOfChannels>>,
       <<2, abuf.numberOfChannels * 2>>, <<2, 16>>, <<4, 1635017060>>,
       <<4, length - 40>> >>

HeaderWrites(abuf, length) ==
    << <<4, 1179011410>>, <<4, length - 8>>, <<4, 1163280727>>, <<4, 544501094>>,
       <<4, 16>>, <<2, 1>>, <<2, abuf.numberOfChannels>>, <<4, abuf.sampleRate>>,
       <<4, abuf.sampleRate * 2 * abuf.numberOfChannels>>,
       <<2, abuf.numberOfChannels * 2>>, <<2, 16>>, <<4, 1635017060>>,
       <<4, length - 40 - 4>> >>

\* applies the header writes from index k on; returns the view and pos
RECURSIVE writeHeader(_, _, _, _)
writeHeader(view, pos, writes, k) ==
    IF k > Len(writes) THEN [view |-> view, pos |-> pos]
    ELSE LET w == writes[k]
             v == IF w[1] = 2 THEN viewSetUint16(view, pos, w[2])
                              ELSE viewSetUint32(view, pos, w[2])
         IN  writeHeader(v, pos + w[1], writes, k + 1)

\* lines 44-45: clamp to [-1,1], then
\* (0.5 + sample < 0 ? sample * 32768 : sample * 32767) | 0
toPCM16(n) ==
    LET s == Max(-SampleDen, Min(SampleDen, n))
    IN  IF SampleDen + 2 * s < 0 THEN TruncDiv(s * 32768, SampleDen)
                                 ELSE TruncDiv(s * 32767, SampleDen)

\* the inner for loop of lines 43-48 for one value of pos
RECURSIVE writeFrame(_, _, _, _, _)
writeFrame(view, abuf, pos, offset, i) ==
    IF i >= abuf.numberOfChannels THEN [view |-> view, offset |-> offset]
    ELSE writeFrame(viewSetInt16(view, 44 + offset, toPCM16(abuf.channels[i][pos])),
                    abuf, pos, offset + 2, i + 1)

\* the while loop of lines 42-50; pos is the variable the header writes advanced
RECURSIVE writeSamples(_, _, _, _, _)
writeSamples(view, abuf, len, pos, offset) ==
    IF pos < len
    THEN LET f == writeFrame(view, abuf, pos, offset, 0)
         IN  writeSamples(f.view, abuf, len, pos + 1, f.offset)
    ELSE view

bufferToWave(abuf, len) ==
    LET length == len * abuf.numberOfChannels * 2 + 44
        zero   == [k \in 1..length |-> 0]
        h      == writeHeader(zero, 0, HeaderWrites(abuf, length), 1)
    IN  writeSamples(h.view, abuf, len, h.pos, 0)

StartWave ==
    /\ abuffer \in WaveInputs
    /\ wavDone = FALSE
    /\ wavBlob = <<>>

IdleWave ==
    /\ abuffer = NoBuffer
    /\ wavDone = FALSE
    /\ wavBlob = <<>>

\* handleDownload line 470: bufferToWave(rendered, rendered.length)
SerializeRendered ==
    /\ ~wavDone
    /\ wavDone' = TRUE
    /\ wavBlob' = bufferToWave(abuffer, abuffer.length)
    /\ UNCHANGED <<abuffer, bpmIn, bpmDone, bpmOut, scoreIn, scoreDone, scoreOut, scoreCalls,
                   matrixVars, keyVars, extraVars, sessionVars>>

(***************************************************************************)
(* detectBPM: peak picking, interval histogram and folding                 *)
(***************************************************************************)
\* hits[j+1] is data[1000*j] > threshold for the rendered slice (line 190)
BoolSeqs(n) == [1..n -> BOOLEAN]

BpmInputs == { [sampleRate |-> sr, hits |-> h] :
                   sr \in SampleRates, h \in UNION { BoolSeqs(n) : n \in 0..MaxStridePoints } }

NoBpmInput == [sampleRate |-> 44100, hits |-> <<>>]

\* lines 189-193: scan i = 0, 1000, 2000, ... with a 2000-sample debounce
RECURSIVE findPeaks(_, _, _)
findPeaks(hits, j, peaks) ==
    IF j >= Len(hits) THEN peaks
    ELSE LET i == 1000 * j
         IN  IF hits[j + 1] /\ (Len(peaks) = 0 \/ i - peaks[Len(peaks)] > 2000)
             THEN findPeaks(hits, j + 1, Append(peaks, i))
             ELSE findPeaks(hits, j + 1, peaks)

\* lines 195-198
peakIntervals(peaks) == [k \in 1..(Len(peaks) - 1) |-> peaks[k + 1] - peaks[k]]

\* line 202: Math.round(int / 100) * 100
quantize(int) == ((2 * int + 100) \div 200) * 100

\* lines 200-204: the histogram, as count per quantized interval
countOf(intervals, q) == Cardinality({k \in 1..Len(intervals) : quantize(intervals[k]) = q})

\* lines 206-213: Object.entries visits integer keys in ascending order and a
\* later key replaces the best one only with a strictly larger count
modalInterval(intervals) ==
    LET keys == {quantize(intervals[k]) : k \in 1..Len(intervals)}
    IN  IF keys = {} THEN 0
        ELSE CHOOSE q \in keys :
                \A r \in keys : \/ countOf(intervals, r) < countOf(intervals, q)
                                \/ (countOf(intervals, r) = countOf(intervals, q) /\ q <= r)

\* lines 217-218 on the rational num / den
RECURSIVE foldUp(_, _)
foldUp(num, den) == IF num < 110 * den THEN foldUp(num * 2, den) ELSE num

RECURSIVE foldDown(_, _)
foldDown(num, den) == IF num > 155 * den THEN foldDown(num, den * 2) ELSE den

\* lines 215-219
foldBPM(sampleRate, bestInterval) ==
    IF bestInterval = 0 THEN 128
    ELSE LET num == foldUp(60 * sampleRate, bestInterval)
             den == foldDown(num, bestInterval)
         IN  (2 * num + den) \div (2 * den)

bestIntervalOf(in) == modalInterval(peakIntervals(findPeaks(in.hits, 0, <<>>)))

detectBPM(in) == foldBPM(in.sampleRate, bestIntervalOf(in))

StartBpm ==
    /\ bpmIn \in BpmInputs
    /\ bpmDone = FALSE
    /\ bpmOut = 0

IdleBpm ==
    /\ bpmIn = NoBpmInput
    /\ bpmDone = FALSE
    /\ bpmOut = 0

DetectTempo ==
    /\ ~bpmDone
    /\ bpmDone' = TRUE
    /\ bpmOut' = detectBPM(bpmIn)
    /\ UNCHANGED <<abuffer, wavDone, wavBlob, bpmIn, scoreIn, scoreDone, scoreOut, scoreCalls,
                   matrixVars, keyVars, extraVars, sessionVars>>

(***************************************************************************)
(* calculateProductionScore                                                *)
(***************************************************************************)
ScoreInputs == [peak : {-600, -11, -10, -9, -5, 0},
                crestFactor : {0, 300, 399, 400, 401, 1000, 1499, 1500, 1501, 4000},
                stereoCorrelation : {-100, -20, -1, 0, 1, 94, 95, 96, 100}]

NoStats == [peak |-> 0, crestFactor |-> 0, stereoCorrelation |-> 0]

\* calls of calculateProductionScore on one AudioStats object
MaxScoreCalls == 3

\* a score whose clipping penalty exceeds the scale and that is returned unclamped
calculateProductionScoreUnclamped(st) ==
    LET s1 == IF st.peak > -10 THEN 100 - 130 ELSE 100
        s2 == IF st.crestFactor < 400 THEN s1 - 20 ELSE s1
        s3 == IF st.crestFactor > 1500 THEN s2 - 15 ELSE s2
        s4 == IF st.stereoCorrelation < 0 THEN s3 - 40 ELSE s3
        s5 == IF st.stereoCorrelation > 95 THEN s4 - 10 ELSE s4
    IN  s5

calculateProductionScoreLoose(st) ==
    LET s1 == IF st.peak >= -10 THEN 100 - 30 ELSE 100
        s2 == IF st.crestFactor <= 400 THEN s1 - 20 ELSE s1
        s3 == IF st.crestFactor >= 1500 THEN s2 - 15 ELSE s2
        s4 == IF st.stereoCorrelation <= 0 THEN s3 - 40 ELSE s3
        s5 == IF st.stereoCorrelation >= 95 THEN s4 - 10 ELSE s4
    IN  Max(0, Min(100, s5))

calculateProductionScore(st) ==
    LET s1 == IF st.peak > -10 THEN 100 - 30 ELSE 100
        s2 == IF st.crestFactor < 400 THEN s1 - 20 ELSE s1
        s3 == IF st.crestFactor > 1500 THEN s2 - 15 ELSE s2
        s4 == IF st.stereoCorrelation < 0 THEN s3 - 40 ELSE s3
        s5 == IF st.stereoCorrelation > 95 THEN s4 - 10 ELSE s4
    IN  Max(0, Min(100, s5))

StartScore ==
    /\ scoreIn \in ScoreInputs
    /\ scoreDone = FALSE
    /\ scoreOut = 0
    /\ scoreCalls = 0

IdleScore ==
    /\ scoreIn = NoStats
    /\ scoreDone = FALSE
    /\ scoreOut = 0
    /\ scoreCalls = 0

ComputeScore ==
    /\ ~scoreDone
    /\ scoreDone' = TRUE
    /\ scoreOut' = calculateProductionScore(scoreIn)
    /\ scoreCalls' = 1
    /\ UNCHANGED <<abuffer, wavDone, wavBlob, bpmIn, bpmDone, bpmOut, scoreIn,
                   matrixVars, keyVars, extraVars, sessionVars>>

\* a further call with the same AudioStats object
ComputeScoreAgain ==
    /\ scoreDone
    /\ scoreCalls < MaxScoreCalls
    /\ scoreOut' = calculateProductionScore(scoreIn)
    /\ scoreCalls' = scoreCalls + 1
    /\ UNCHANGED <<abuffer, wavDone, wavBlob, bpmIn, bpmDone, bpmOut, scoreIn, scoreDone,
                   matrixVars, keyVars, extraVars, sessionVars>>

(***************************************************************************)
(* analyzeKeyReal: from the best autocorrelation offset to the note name   *)
(***************************************************************************)
\* NOTES (line 226)
NOTES == <<"C", "C#", "D", "D#", "E", "F", "F#", "G", "G#", "A", "A#", "B">>

\* sample rates of the analysed buffer; 44000 Hz makes 440 Hz and 880 Hz exact
KeySampleRates == SampleRates \cup {44000}

\* the offsets of the loop of line 246
searchedOffsets(sr) == (sr \div 1000)..((sr \div 40) - 1)

KeyInputs == UNION { { [sampleRate |-> sr, bestOffset |-> off] :
                           off \in {-1} \cup searchedOffsets(sr) } : sr \in KeySampleRates }

NoKeyInput == [sampleRate |-> 44100, bestOffset |-> -1]

\* 440 * 2^((2s+1)/24) Hz in mHz for s = 0..11: the frequency at which
\* 12 * log2(f / 440) reaches s + 1/2, where Math.round steps from s to s + 1
SemitoneEdges == <<452893, 479823, 508355, 538584, 570609, 604540,
                   640487, 678573, 718923, 761672, 806964, 854948>>

\* Math.round(12 * (Math.log(freq / 440) / Math.log(2))) for freq = num / den
\* (lines 258-259): freq is brought into the octave starting half a semitone
\* below 440 Hz, oct counts the octaves it was moved by
RECURSIVE roundedNoteNum(_, _, _)
roundedNoteNum(num, den, oct) ==
    IF 2 * num * 1000 < SemitoneEdges[12] * den THEN roundedNoteNum(2 * num, den, oct - 1)
    ELSE IF num * 1000 >= SemitoneEdges[12] * den THEN roundedNoteNum(num, 2 * den, oct + 1)
    ELSE 12 * oct + Cardinality({k \in 1..11 : num * 1000 >= SemitoneEdges[k] * den})

\* a % b of JavaScript: the remainder has the sign of a
jsRem(a, b) == a - b * TruncDiv(a, b)

\* line 259 with the offset of another note
midiNumberShifted(num, den) == roundedNoteNum(num, den, 0) + 70

\* line 259
midiNumber(num, den) == roundedNoteNum(num, den, 0) + 69

\* lines 260-261: NOTES[midi % 12] || "Unknown"
noteName(midi) ==
    LET noteIndex == jsRem(midi, 12)
    IN  IF noteIndex \in 0..11 THEN NOTES[noteIndex + 1] ELSE "Unknown"

\* lines 256-261
analyzeKeyReal(in) ==
    IF in.bestOffset = -1 THEN "Unknown"
    ELSE noteName(midiNumber(in.sampleRate, in.bestOffset))

StartKey ==
    /\ keyIn \in KeyInputs
    /\ keyDone = FALSE
    /\ keyOut = ""

IdleKey ==
    /\ keyIn = NoKeyInput
    /\ keyDone = FALSE
    /\ keyOut = ""

DetectKey ==
    /\ ~keyDone
    /\ keyDone' = TRUE
    /\ keyOut' = analyzeKeyReal(keyIn)
    /\ UNCHANGED <<abuffer, wavDone, wavBlob, bpmIn, bpmDone, bpmOut, scoreIn, scoreDone,
                   scoreOut, scoreCalls, matrixVars, keyIn, extraVars, sessionVars>>

(***************************************************************************)
(* The mastering session: App component of part_000                        *)
(***************************************************************************)
\* files the user can pick
NumFiles == 2
\* offline renders pending at the same time
MaxRendering == 1
\* knob changes and assistant updates in one run
MaxSettingsWrites == 2
\* meter updates in one run; meter levels count 10^-MaxMeterUpdates dB
MaxMeterUpdates == 2
\* function calls in one assistant response
MaxCalls == 1
\* handler runs (event handlers and continuations after an await) in one run
MaxSteps == 7

Files == 1..NumFiles

RECURSIVE Pow10(_)
Pow10(n) == IF n = 0 THEN 1 ELSE 10 * Pow10(n - 1)

\* one dB on the meter
MeterUnit == Pow10(MaxMeterUpdates)

\* { rms: -100, peak: -100 } (lines 46, 72, 139)
MeterSilence == [rms |-> -100 * MeterUnit, peak |-> -100 * MeterUnit]

\* useState initial value of settings (lines 51-62)
DefaultSettings ==
    [inputGain |-> 0, limiterCeiling |-> -10, saturation |-> 5, stereoWidth |-> 100,
     eqLow |-> 0, eqMid |-> 0, eqHigh |-> 0,
     mbLowThreshold |-> -1600, mbMidThreshold |-> -1600, mbHighThreshold |-> -1600]

SettingKeys == DOMAIN DefaultSettings

\* min and max props of the seven Knob elements (lines 639-655)
KnobRange ==
    [eqLow |-> <<-1200, 1200>>, eqMid |-> <<-1200, 1200>>, eqHigh |-> <<-1200, 1200>>,
     saturation |-> <<0, 100>>, stereoWidth |-> <<0, 200>>,
     inputGain |-> <<-1200, 1200>>, limiterCeiling |-> <<-300, 0>>]

KnobKeys == DOMAIN KnobRange

\* nominal range of DynamicsCompressorNode.threshold, [-100, 0] dB
ThresholdRange == <<-10000, 0>>

\* Knob handleMouseMove (lines 754-763): startValue + deltaValue, clamped to [min, max]
knobValue(knob, raw) == Max(KnobRange[knob][1], Min(KnobRange[knob][2], raw))

\* the knob drags tried: <<key, startValue + deltaValue>>, one ending above
\* the range and one below it
KnobDrags == { <<"eqHigh", 100000>>, <<"limiterCeiling", -100000>> }

\* args of update_mastering_settings calls the assistant may send: any subset
\* of the declared properties with any number (geminiService.ts:56-70)
AssistantArgs == { ("eqLow" :> 2000),
                   ("saturation" :> 50 @@ "stereoWidth" :> 150) }

NoArgs == [k \in {} |-> 0]

AssistantCalls ==
    { [name |-> "update_mastering_settings", action |-> "", args |-> a] : a \in AssistantArgs }
    \cup { [name |-> "playback_control", action |-> a, args |-> NoArgs] : a \in {"play", "pause"} }
    \cup { [name |-> "navigation_control", action |-> a, args |-> NoArgs] :
               a \in {"forward", "backward"} }

AssistantResponses == UNION { [1..n -> AssistantCalls] : n \in 0..MaxCalls }

\* results of calculateAudioStats (audioUtils.ts:111-123) on the decoded tracks:
\* a quiet track and a hot, crushed, anti-phase one
TrackStatsSamples ==
    << [peak |-> -1200, rms |-> -2050, crestFactor |-> 850, stereoCorrelation |-> 50],
       [peak |-> -5, rms |-> -300, crestFactor |-> 295, stereoCorrelation |-> -20] >>

\* the stats of file f: a pure function of its decoded buffer
trackStatsOf(f) == TrackStatsSamples[((f - 1) % Len(TrackStatsSamples)) + 1]

NoTrackStats == [file |-> 0, peak |-> 0, rms |-> 0, crestFactor |-> 0, stereoCorrelation |-> 0]

\* windows read from an analyser: <<dbRMS, dbPeak>> of lines 388-389 in whole dB;
\* an all-zero window gives 20 * log10(0.000001) = -120 for both
SilentWindow == <<-120, -120>>

MeterWindows == { SilentWindow, <<-20, -6>> }

\* estimator outcomes before any load
NoEstimators == [bpmFailed |-> FALSE, keyFailed |-> FALSE]

\* what detectBPM sees of the decoded tracks: the strided samples above the
\* threshold (line 190); a track with a kick every 21000 samples and one without peaks
TrackBpmInputs ==
    << [sampleRate |-> 44100,
        hits |-> [j \in 1..64 |-> (j - 1) % 21 = 0]],
       [sampleRate |-> 44100, hits |-> [j \in 1..64 |-> FALSE]] >>

trackBpmInput(f) == TrackBpmInputs[((f - 1) % Len(TrackBpmInputs)) + 1]

\* what analyzeKeyReal finds in the decoded tracks: a best offset of 100
\* samples (441 Hz) and no positive correlation at all
TrackKeyInputs ==
    << [sampleRate |-> 44100, bestOffset |-> 100],
       [sampleRate |-> 44100, bestOffset |-> -1] >>

trackKeyInput(f) == TrackKeyInputs[((f - 1) % Len(TrackKeyInputs)) + 1]

\* a detectBPM whose catch block returns 0
tryDetectBPMZero(in, throws) == IF throws THEN 0 ELSE detectBPM(in)

\* detectBPM with its try/catch (audioUtils.ts:153, 220-223): throws says
\* whether something inside the try block threw
tryDetectBPM(in, throws) == IF throws THEN 128 ELSE detectBPM(in)

\* analyzeKeyReal with its try/catch (audioUtils.ts:229, 262-265)
tryAnalyzeKey(in, throws) == IF throws THEN "Unknown" ELSE analyzeKeyReal(in)

(***************************************************************************)
(* The graph                                                               *)
(***************************************************************************)
\* Math.pow(10, dB / 20), kept as its exponent dB/20 = x / 2000 for x hundredths of a dB
dbToGain(x) == [pow10 |-> <<x, 2000>>]

\* makeDistortionCurve(amount) (audioUtils.ts:140-150): the table is fixed by
\* drive = 1 + k / 10, kept as the rational (10 + k) / 10
makeDistortionCurve(amount) == [drive |-> <<10 + amount, 10>>]

\* the values setupAudioGraph (lines 205-336) and the settings effect
\* (lines 104-124) derive from a settings record
graphParams(s) ==
    [inputGain |-> dbToGain(s.inputGain),
     lowShelf |-> s.eqLow, midPeaking |-> s.eqMid, highShelf |-> s.eqHigh,
     saturation |-> makeDistortionCurve(s.saturation),
     sideGain |-> <<s.stereoWidth, 100>>,
     mbLow |-> s.mbLowThreshold, mbMid |-> s.mbMidThreshold, mbHigh |-> s.mbHighThreshold,
     limiter |-> s.limiterCeiling]

\* CROSSOVER_LOW_MID and CROSSOVER_MID_HIGH (lines 75-76)
CROSSOVER_LOW_MID == 200
CROSSOVER_MID_HIGH == 5000

\* the nodes setupAudioGraph creates (lines 204-343), by the name of the
\* source's variable; p is graphParams of the settings.  Fixed gains and ratios
\* are rationals <<n, d>>, frequencies are in Hz, the attack is in ms.
graphNodes(p) ==
    [inputGainNode  |-> [type |-> "gain", gain |-> p.inputGain],
     rumbleFilter   |-> [type |-> "highpass", frequency |-> 25],
     saturationNode |-> [type |-> "waveshaper", curve |-> p.saturation, oversample |-> "4x"],
     lowShelf       |-> [type |-> "lowshelf", frequency |-> 100, gain |-> p.lowShelf],
     midPeaking     |-> [type |-> "peaking", frequency |-> 1000, gain |-> p.midPeaking],
     highShelf      |-> [type |-> "highshelf", frequency |-> 10000, gain |-> p.highShelf],
     splitter       |-> [type |-> "splitter", outputs |-> 2],
     merger         |-> [type |-> "merger", inputs |-> 2],
     sumL           |-> [type |-> "gain", gain |-> <<1, 2>>],
     sumR           |-> [type |-> "gain", gain |-> <<1, 2>>],
     diffL          |-> [type |-> "gain", gain |-> <<1, 2>>],
     diffR          |-> [type |-> "gain", gain |-> <<-1, 2>>],
     midSignal      |-> [type |-> "gain", gain |-> <<1, 1>>],
     sideSignal     |-> [type |-> "gain", gain |-> <<1, 1>>],
     sideGain       |-> [type |-> "gain", gain |-> p.sideGain],
     outL_Mid       |-> [type |-> "gain", gain |-> <<1, 1>>],
     outL_Side      |-> [type |-> "gain", gain |-> <<1, 1>>],
     outR_Mid       |-> [type |-> "gain", gain |-> <<1, 1>>],
     outR_Side      |-> [type |-> "gain", gain |-> <<-1, 1>>],
     lowFilter      |-> [type |-> "lowpass", frequency |-> CROSSOVER_LOW_MID],
     lowComp        |-> [type |-> "compressor", threshold |-> p.mbLow, ratio |-> <<25, 10>>],
     midLowCut      |-> [type |-> "highpass", frequency |-> CROSSOVER_LOW_MID],
     midHighCut     |-> [type |-> "lowpass", frequency |-> CROSSOVER_MID_HIGH],
     midComp        |-> [type |-> "compressor", threshold |-> p.mbMid, ratio |-> <<2, 1>>],
     highFilter     |-> [type |-> "highpass", frequency |-> CROSSOVER_MID_HIGH],
     highComp       |-> [type |-> "compressor", threshold |-> p.mbHigh, ratio |-> <<15, 10>>],
     compSumNode    |-> [type |-> "gain", gain |-> <<1, 1>>],
     limiter        |-> [type |-> "compressor", threshold |-> p.limiter, ratio |-> <<20, 1>>,
                         attack |-> 2],
     analyser       |-> [type |-> "analyser", fftSize |-> 2048]]

\* a connect that always takes output 0 of a
connectFirstOutput(a, b, output, input) == [from |-> a, to |-> b, output |-> 0, input |-> input]

\* a.connect(b, output, input)
connect(a, b, output, input) == [from |-> a, to |-> b, output |-> output, input |-> input]

\* a graph whose destination is fed by the limiter, past the analyser
tapConnectionFromLimiter(destination) == connect("limiter", destination, 0, 0)

\* line 345: analyser.connect(destination)
tapConnection(destination) == connect("analyser", destination, 0, 0)

\* the connect calls of setupAudioGraph in source order (lines 233-345)
graphConnections(destination) ==
    << connect("inputGainNode", "rumbleFilter", 0, 0),
       connect("rumbleFilter", "saturationNode", 0, 0),
       connect("saturationNode", "lowShelf", 0, 0),
       connect("lowShelf", "midPeaking", 0, 0),
       connect("midPeaking", "highShelf", 0, 0),
       connect("highShelf", "splitter", 0, 0),
       connect("splitter", "sumL", 0, 0),
       connect("splitter", "sumR", 1, 0),
       connect("splitter", "diffL", 0, 0),
       connect("splitter", "diffR", 1, 0),
       connect("sumL", "midSignal", 0, 0),
       connect("sumR", "midSignal", 0, 0),
       connect("diffL", "sideSignal", 0, 0),
       connect("diffR", "sideSignal", 0, 0),
       connect("sideSignal", "sideGain", 0, 0),
       connect("midSignal", "outL_Mid", 0, 0),
       connect("midSignal", "outR_Mid", 0, 0),
       connect("sideGain", "outL_Side", 0, 0),
       connect("sideGain", "outR_Side", 0, 0),
       connect("outL_Mid", "merger", 0, 0),
       connect("outL_Side", "merger", 0, 0),
       connect("outR_Mid", "merger", 0, 1),
       connect("outR_Side", "merger", 0, 1),
       connect("merger", "lowFilter", 0, 0),
       connect("lowFilter", "lowComp", 0, 0),
       connect("merger", "midLowCut", 0, 0),
       connect("midLowCut", "midHighCut", 0, 0),
       connect("midHighCut", "midComp", 0, 0),
       connect("merger", "highFilter", 0, 0),
       connect("highFilter", "highComp", 0, 0),
       connect("lowComp", "compSumNode", 0, 0),
       connect("midComp", "compSumNode", 0, 0),
       connect("highComp", "compSumNode", 0, 0),
       connect("compSumNode", "limiter", 0, 0),
       connect("limiter", "analyser", 0, 0),
       tapConnection(destination) >>

\* the destination handed to setupAudioGraph for a graph of context ctx
\* (playAudio line 420, handleDownload line 466)
destinationOf(ctx) == IF ctx = "live" THEN "ctx.destination" ELSE "offlineCtx.destination"

\* the nodes reachable from the nodes S over the connections edges
RECURSIVE reach(_, _)
reach(S, edges) ==
    LET T == S \cup {e.to : e \in {x \in edges : x.from \in S}}
    IN  IF T = S THEN S ELSE reach(T, edges)

\* arithmetic on rationals <<n, d>> with d > 0
ratMul(a, b) == <<a[1] * b[1], a[2] * b[2]>>

ratAdd(a, b) ==
    IF a[2] = b[2] THEN <<a[1] + b[1], a[2]>>
    ELSE IF b[2] % a[2] = 0 THEN <<a[1] * (b[2] \div a[2]) + b[1], b[2]>>
    ELSE IF a[2] % b[2] = 0 THEN <<a[1] + b[1] * (a[2] \div b[2]), a[2]>>
    ELSE <<a[1] * b[2] + b[1] * a[2], a[2] * b[2]>>

ratEq(a, b) == a[1] * b[2] = b[1] * a[2]

\* The signal of the GainNodes between splitter and merger for one sample
\* frame: a GainNode outputs its gain times the sum of its inputs, the
\* splitter's output k is channel k of its input.  in is <<L, R>>.
\* the connections into input i of node n
incoming(n, i, conns) == SelectSeq(conns, LAMBDA c : c.to = n /\ c.input = i)

RECURSIVE gainNodeSignal(_, _, _, _)
RECURSIVE inputSum(_, _, _, _, _)

gainNodeSignal(n, nodes, conns, in) ==
    ratMul(nodes[n].gain, inputSum(incoming(n, 0, conns), nodes, conns, in, 1))

\* the sum of the signals arriving over the connections edges[k], edges[k+1], ...
inputSum(edges, nodes, conns, in, k) ==
    IF k > Len(edges) THEN <<0, 1>>
    ELSE LET c == edges[k]
             x == IF c.from = "splitter" THEN in[c.output + 1]
                  ELSE gainNodeSignal(c.from, nodes, conns, in)
         IN  ratAdd(x, inputSum(edges, nodes, conns, in, k + 1))

\* the two inputs of the merger for the splitter outputs L and R (lines 241-290)
stereoMatrix(s, L, R) ==
    LET nodes == graphNodes(graphParams(s))
        conns == graphConnections("destination")
        in    == << <<L, SampleDen>>, <<R, SampleDen>> >>
    IN  [L |-> inputSum(incoming("merger", 0, conns), nodes, conns, in, 1),
         R |-> inputSum(incoming("merger", 1, conns), nodes, conns, in, 1)]

\* stereoWidth settings tried: mono, narrowed, unchanged, widened, the maximum
MatrixWidths == {0, 50, 100, 150, 200}

MatrixInputs == [L : -(SampleDen + 1)..(SampleDen + 1), R : -(SampleDen + 1)..(SampleDen + 1),
                 width : MatrixWidths]

NoMatrixInput == [L |-> 0, R |-> 0, width |-> 100]

NoMatrixOutput == [L |-> <<0, 1>>, R |-> <<0, 1>>]

StartMatrix ==
    /\ msIn \in MatrixInputs
    /\ msDone = FALSE
    /\ msOut = NoMatrixOutput

IdleMatrix ==
    /\ msIn = NoMatrixInput
    /\ msDone = FALSE
    /\ msOut = NoMatrixOutput

\* one sample frame passes from the splitter to the merger
ProcessFrame ==
    /\ ~msDone
    /\ msDone' = TRUE
    /\ msOut' = stereoMatrix([DefaultSettings EXCEPT !.stereoWidth = msIn.width], msIn.L, msIn.R)
    /\ UNCHANGED <<abuffer, wavDone, wavBlob, bpmIn, bpmDone, bpmOut, scoreIn, scoreDone,
                   scoreOut, scoreCalls, msIn, keyVars, extraVars, sessionVars>>

\* setupAudioGraph(ctx, destination): a new instance in context ctx whose
\* parameters are set by value (timeConstant 0: no ramp)
setupAudioGraph(s, ctx) == [ctx |-> ctx, params |-> graphParams(s), timeConstant |-> 0]

\* body of the settings effect (lines 98-124): setTargetAtTime(v, now, 0.05) on
\* every parameter and replacement of the curve
retarget(g, s) == [g EXCEPT !.params = graphParams(s), !.timeConstant = 5]

\* useEffect[settings] (lines 96-126) on the graph map
settingsEffect(gs, gref, ctxReady, s) ==
    IF gref = 0 \/ ~ctxReady THEN gs ELSE [gs EXCEPT ![gref] = retarget(@, s)]

\* smallest id not used by the ids in use
FreshId(used) == CHOOSE n \in 1..(Cardinality(used) + 1) :
                    /\ n \notin used
                    /\ \A m \in 1..(n - 1) : m \in used

\* graph instances something still refers to
Retain(gs, srcs, gref, aref, rend) ==
    LET used == ({gref, aref} \cup {s.to : s \in srcs} \cup rend) \ {0}
    IN  [g \in (DOMAIN gs \cap used) |-> gs[g]]

(***************************************************************************)
(* Transport.  The part of the state playAudio and handleStop act on is    *)
(* passed as a record w; c holds the values of the handler's closure.      *)
(***************************************************************************)
Transport ==
    [isPlaying |-> isPlaying, sourceNodeRef |-> sourceNodeRef, liveSources |-> liveSources,
     graphRef |-> graphRef, analyserRef |-> analyserRef, graphs |-> graphs]

Closure == [settings |-> settings, isBypassed |-> isBypassed, isPlaying |-> isPlaying]

NoClosure == [settings |-> DefaultSettings, isBypassed |-> FALSE, isPlaying |-> FALSE]

\* a playAudio that leaves the previous source running
playAudioNoStop(w, c) ==
    IF ~audioContextRef \/ originalBufferRef = 0 THEN w
    ELSE LET stopped == w.liveSources
             sid == FreshId({s.id : s \in stopped})
         IN  IF c.isBypassed
             THEN [w EXCEPT !.liveSources = stopped \cup {[id |-> sid, to |-> 0]},
                            !.graphRef = 0,
                            !.sourceNodeRef = sid,
                            !.isPlaying = TRUE]
             ELSE LET g == FreshId(DOMAIN w.graphs)
                  IN  [w EXCEPT !.graphs = (g :> setupAudioGraph(c.settings, "live")) @@ w.graphs,
                                !.graphRef = g,
                                !.analyserRef = g,
                                !.liveSources = stopped \cup {[id |-> sid, to |-> g]},
                                !.sourceNodeRef = sid,
                                !.isPlaying = TRUE]

\* playAudio (lines 405-428)
playAudio(w, c) ==
    IF ~audioContextRef \/ originalBufferRef = 0 THEN w
    ELSE LET stopped == {s \in w.liveSources : s.id # w.sourceNodeRef}
             sid == FreshId({s.id : s \in stopped})
         IN  IF c.isBypassed
             THEN [w EXCEPT !.liveSources = stopped \cup {[id |-> sid, to |-> 0]},
                            !.graphRef = 0,
                            !.sourceNodeRef = sid,
                            !.isPlaying = TRUE]
             ELSE LET g == FreshId(DOMAIN w.graphs)
                  IN  [w EXCEPT !.graphs = (g :> setupAudioGraph(c.settings, "live")) @@ w.graphs,
                                !.graphRef = g,
                                !.analyserRef = g,
                                !.liveSources = stopped \cup {[id |-> sid, to |-> g]},
                                !.sourceNodeRef = sid,
                                !.isPlaying = TRUE]

\* handleStop (lines 430-436)
handleStop(w) ==
    [w EXCEPT !.liveSources = {s \in w.liveSources : s.id # w.sourceNodeRef},
              !.sourceNodeRef = 0,
              !.isPlaying = FALSE]

\* handleSeek (lines 442-446)
handleSeek(w, c) == IF c.isPlaying THEN playAudio(w, c) ELSE w

\* writes w back, with the settings effect if the handler changed settings
Commit(w, changed) ==
    LET gs == IF changed
              THEN settingsEffect(w.graphs, w.graphRef, audioContextRef', settings')
              ELSE w.graphs
    IN  /\ isPlaying' = w.isPlaying
        /\ sourceNodeRef' = w.sourceNodeRef
        /\ liveSources' = w.liveSources
        /\ graphRef' = w.graphRef
        /\ analyserRef' = w.analyserRef
        /\ graphs' = Retain(gs, w.liveSources, w.graphRef, w.analyserRef, rendering')

\* n handler runs within the budget
Steps(n) == steps + n <= MaxSteps /\ steps' = steps + n

\* a handler run within the budget
Step == Steps(1)

InitSession ==
    /\ appState = "IDLE"
    /\ fileName = 0
    /\ stats = NoTrackStats
    /\ score = 0
    /\ isPlaying = FALSE
    /\ isBypassed = FALSE
    /\ liveStats = MeterSilence
    /\ settings = DefaultSettings
    /\ isChatLoading = FALSE
    /\ bpm = 128
    /\ key = "--"
    /\ estimators = NoEstimators
    /\ tapSilent = TRUE
    /\ audioContextRef = FALSE
    /\ sourceNodeRef = 0
    /\ originalBufferRef = 0
    /\ analyserRef = 0
    /\ graphRef = 0
    /\ meterSmoothingRef = MeterSilence
    /\ liveSources = {}
    /\ graphs = NoArgs
    /\ rendering = {}
    /\ upload = [pc |-> "idle", file |-> 0, settings |-> DefaultSettings]
    /\ chat = NoClosure
    /\ settingsWrites = 0
    /\ meterUpdates = 0
    /\ steps = 0

(***************************************************************************)
(* Loading a track: handleFileUpload (lines 128-200), one action per       *)
(* stretch between awaits                                                  *)
(***************************************************************************)
\* lines 176-184: the settings of the handler's closure with auto-gain and
\* thresholds from the track's stats
seedSettings(s, trackStats) ==
    LET g == IF trackStats.peak < -600 THEN Min(600, -300 - trackStats.peak)
             ELSE IF trackStats.peak > -50 THEN -100
             ELSE s.inputGain
    IN  [s EXCEPT !.inputGain = g,
                  !.mbLowThreshold = ((trackStats.rms - 200) \div 100) * 100,
                  !.mbMidThreshold = (trackStats.rms \div 100) * 100,
                  !.mbHighThreshold = ((trackStats.rms + 100) \div 100) * 100]

\* lines 129-142; the file input is disabled while appState is ANALYZING (line 551)
handleFileUpload ==
    /\ Step
    /\ appState # "ANALYZING"
    /\ \E f \in Files :
        /\ fileName' = f
        /\ upload' = [pc |-> "decoding", file |-> f, settings |-> settings]
    /\ audioContextRef' = TRUE
    /\ appState' = "ANALYZING"
    /\ isPlaying' = FALSE
    /\ liveStats' = MeterSilence
    /\ estimators' = NoEstimators
    /\ UNCHANGED <<utilVars, bpm, key, tapSilent, stats, score, isBypassed, settings, isChatLoading, sourceNodeRef,
                   originalBufferRef, analyserRef, graphRef, meterSmoothingRef, liveSources,
                   graphs, rendering, chat, settingsWrites, meterUpdates>>

\* lines 145-165: both decode attempts done, the second one succeeded at the latest
Decoded ==
    /\ Step
    /\ upload.pc = "decoding"
    /\ LET st == trackStatsOf(upload.file)
       IN  /\ stats' = [file |-> upload.file, peak |-> st.peak, rms |-> st.rms,
                        crestFactor |-> st.crestFactor,
                        stereoCorrelation |-> st.stereoCorrelation]
           /\ score' = calculateProductionScore(st)
    /\ originalBufferRef' = upload.file
    /\ upload' = [upload EXCEPT !.pc = "detecting"]
    /\ UNCHANGED <<utilVars, analysisVars, tapSilent, appState, fileName, isPlaying, isBypassed, liveStats, settings,
                   isChatLoading, audioContextRef, sourceNodeRef, analyserRef, graphRef,
                   meterSmoothingRef, liveSources, graphs, rendering, chat, settingsWrites,
                   meterUpdates>>

\* lines 145-159 throwing (file read or both decode attempts), then lines 195-199
DecodeFailed ==
    /\ Step
    /\ upload.pc = "decoding"
    /\ appState' = "IDLE"
    /\ upload' = [pc |-> "idle", file |-> 0, settings |-> DefaultSettings]
    /\ UNCHANGED <<utilVars, analysisVars, tapSilent, fileName, stats, score, isPlaying, isBypassed, liveStats, settings,
                   isChatLoading, audioContextRef, sourceNodeRef, originalBufferRef,
                   analyserRef, graphRef, meterSmoothingRef, liveSources, graphs, rendering,
                   chat, settingsWrites, meterUpdates>>

\* lines 168-185: tempo and key are back, settings are seeded
Seeded ==
    /\ Step
    /\ upload.pc = "detecting"
    /\ \E bpmThrows \in BOOLEAN, keyThrows \in BOOLEAN :
        LET bpmIn0 == trackBpmInput(upload.file)
            keyIn0 == trackKeyInput(upload.file)
        IN  /\ bpm' = tryDetectBPM(bpmIn0, bpmThrows)
            /\ key' = tryAnalyzeKey(keyIn0, keyThrows)
            /\ estimators' = [bpmFailed |-> bpmThrows \/ bestIntervalOf(bpmIn0) = 0,
                              keyFailed |-> keyThrows \/ keyIn0.bestOffset = -1]
    /\ settings' = seedSettings(upload.settings, stats)
    /\ upload' = [upload EXCEPT !.pc = "auditing"]
    /\ UNCHANGED <<utilVars, tapSilent, appState, fileName, stats, score, isBypassed, liveStats, isChatLoading,
                   audioContextRef, originalBufferRef, meterSmoothingRef, rendering, chat,
                   settingsWrites, meterUpdates>>
    /\ Commit(Transport, TRUE)

\* lines 187-194: analyzeTrackWithAI is back
Analyzed ==
    /\ Step
    /\ upload.pc = "auditing"
    /\ appState' = "READY_TO_MASTER"
    /\ upload' = [pc |-> "idle", file |-> 0, settings |-> DefaultSettings]
    /\ UNCHANGED <<utilVars, analysisVars, tapSilent, fileName, stats, score, isPlaying, isBypassed, liveStats, settings,
                   isChatLoading, audioContextRef, sourceNodeRef, originalBufferRef,
                   analyserRef, graphRef, meterSmoothingRef, liveSources, graphs, rendering,
                   chat, settingsWrites, meterUpdates>>

(***************************************************************************)
(* Control surface                                                         *)
(***************************************************************************)
\* a merge that drops the stereoWidth argument
mergeSettingsPartial(prev, args) ==
    [k \in SettingKeys |-> IF k \in DOMAIN args /\ k # "stereoWidth" THEN args[k] ELSE prev[k]]

\* setSettings(prev => ({ ...prev, ...args })) (line 500)
mergeSettings(prev, args) ==
    [k \in SettingKeys |-> IF k \in DOMAIN args THEN args[k] ELSE prev[k]]

\* a Knob drag reaching updateSetting (lines 455-457), then the settings effect
updateSetting ==
    /\ Step
    /\ settingsWrites < MaxSettingsWrites
    /\ \E drag \in KnobDrags :
        settings' = mergeSettings(settings, drag[1] :> knobValue(drag[1], drag[2]))
    /\ settingsWrites' = settingsWrites + 1
    /\ UNCHANGED <<utilVars, analysisVars, tapSilent, appState, fileName, stats, score, isBypassed, liveStats, isChatLoading,
                   audioContextRef, originalBufferRef, meterSmoothingRef, rendering, upload,
                   chat, meterUpdates>>
    /\ Commit(Transport, TRUE)

\* the bypass button (line 573), disabled without stats
bypassClick ==
    /\ Step
    /\ stats.file # 0
    /\ isBypassed' = ~isBypassed
    /\ UNCHANGED <<utilVars, analysisVars, tapSilent, appState, fileName, stats, score, isPlaying, liveStats, settings,
                   isChatLoading, audioContextRef, sourceNodeRef, originalBufferRef,
                   analyserRef, graphRef, meterSmoothingRef, liveSources, graphs, rendering,
                   upload, chat, settingsWrites, meterUpdates>>

\* togglePlayback (lines 438-440), button disabled without stats (line 582)
togglePlayback ==
    /\ Step
    /\ stats.file # 0
    /\ UNCHANGED <<utilVars, analysisVars, tapSilent, appState, fileName, stats, score, isBypassed, liveStats, settings,
                   isChatLoading, audioContextRef, originalBufferRef, meterSmoothingRef,
                   rendering, upload, chat, settingsWrites, meterUpdates>>
    /\ Commit(IF isPlaying THEN handleStop(Transport) ELSE playAudio(Transport, Closure), FALSE)

\* a click on the waveform or on a jump button while playing (lines 442-453)
seekClick ==
    /\ Step
    /\ stats.file # 0
    /\ isPlaying
    /\ UNCHANGED <<utilVars, analysisVars, tapSilent, appState, fileName, stats, score, isBypassed, liveStats, settings,
                   isChatLoading, audioContextRef, originalBufferRef, meterSmoothingRef,
                   rendering, upload, chat, settingsWrites, meterUpdates>>
    /\ Commit(handleSeek(Transport, Closure), FALSE)

(***************************************************************************)
(* updateTime (lines 369-400), run per animation frame while isPlaying     *)
(***************************************************************************)
\* line 373: the playhead reached the end of the track
trackEnded ==
    /\ Step
    /\ isPlaying
    /\ audioContextRef
    /\ originalBufferRef # 0
    /\ UNCHANGED <<utilVars, analysisVars, tapSilent, appState, fileName, stats, score, isBypassed, liveStats, settings,
                   isChatLoading, audioContextRef, originalBufferRef, meterSmoothingRef,
                   rendering, upload, chat, settingsWrites, meterUpdates>>
    /\ Commit(handleStop(Transport), FALSE)

\* lines 391-392 on levels counted in 1/MeterUnit dB
smoothMeter(prev, dbRMS, dbPeak) ==
    [rms |-> (3 * dbRMS * MeterUnit + 7 * prev.rms) \div 10,
     peak |-> Max(dbPeak * MeterUnit, (dbPeak * MeterUnit + 9 * prev.peak) \div 10)]

\* the smoothed levels shown as they are
displayLevelsRaw(sm) == sm

\* line 393: the displayed levels are floored at -100 dB
displayLevels(sm) ==
    [rms |-> Max(-100 * MeterUnit, sm.rms), peak |-> Max(-100 * MeterUnit, sm.peak)]

\* lines 376-395: a meter update
updateMeter ==
    /\ Step
    /\ isPlaying
    /\ audioContextRef
    /\ analyserRef # 0
    /\ meterUpdates < MaxMeterUpdates
    /\ \E win \in MeterWindows :
        /\ meterSmoothingRef' = smoothMeter(meterSmoothingRef, win[1], win[2])
        /\ liveStats' = displayLevels(meterSmoothingRef')
        /\ tapSilent' = (tapSilent /\ win = SilentWindow)
    /\ meterUpdates' = meterUpdates + 1
    /\ UNCHANGED <<utilVars, analysisVars, appState, fileName, stats, score, isPlaying, isBypassed, settings,
                   isChatLoading, audioContextRef, sourceNodeRef, originalBufferRef,
                   analyserRef, graphRef, liveSources, graphs, rendering, upload, chat,
                   settingsWrites>>

(***************************************************************************)
(* updateTime: the animation frames of a playing track and the throttle of *)
(* the meter (part_000:369-397).  Times are in ms.                         *)
(***************************************************************************)
\* performance.now() when the component is constructed
StartMillis == 1000

\* how long the frames are followed
MaxMillis == 120

\* the time between two animation frames
FrameMillis == {17, 25, 50}

\* a throttle that lets every frame through
meterDueEveryFrame(time, last) == time - last > 0

\* line 379
meterDue(time, last) == time - last > 50

StartMeter ==
    /\ now = StartMillis
    /\ lastMeterUpdateRef = 0
    /\ meterIn = SilentWindow

IdleMeter == StartMeter

\* lines 370-397 for a track that has not reached its end
animationFrame ==
    /\ isPlaying
    /\ audioContextRef
    /\ analyserRef # 0
    /\ \E gap \in FrameMillis :
        /\ now + gap <= StartMillis + MaxMillis
        /\ now' = now + gap
    /\ IF meterDue(now', lastMeterUpdateRef)
       THEN /\ meterUpdates < MaxMeterUpdates
            /\ \E win \in MeterWindows :
                /\ meterIn' = win
                /\ meterSmoothingRef' = smoothMeter(meterSmoothingRef, win[1], win[2])
                /\ liveStats' = displayLevels(meterSmoothingRef')
                /\ tapSilent' = (tapSilent /\ win = SilentWindow)
            /\ lastMeterUpdateRef' = now'
            /\ meterUpdates' = meterUpdates + 1
       ELSE UNCHANGED <<meterIn, meterSmoothingRef, liveStats, tapSilent, lastMeterUpdateRef,
                        meterUpdates>>
    /\ UNCHANGED <<coreUtilVars, playheadVars, sliceVars, statsVars, curveVars, analysisVars,
                   appState, fileName, stats, score, isPlaying, isBypassed, settings,
                   isChatLoading, audioContextRef, sourceNodeRef, originalBufferRef,
                   analyserRef, graphRef, liveSources, graphs, rendering, upload, chat,
                   settingsWrites, steps>>

\* a started source that nothing stopped reaches the end of its buffer
sourceEnded ==
    /\ Step
    /\ ~isPlaying
    /\ \E s \in liveSources :
        /\ liveSources' = liveSources \ {s}
        /\ graphs' = Retain(graphs, liveSources', graphRef, analyserRef, rendering)
    /\ UNCHANGED <<utilVars, analysisVars, tapSilent, appState, fileName, stats, score, isPlaying, isBypassed, liveStats,
                   settings, isChatLoading, audioContextRef, sourceNodeRef, originalBufferRef,
                   analyserRef, graphRef, meterSmoothingRef, rendering, upload, chat,
                   settingsWrites, meterUpdates>>

(***************************************************************************)
(* Export: handleDownload (lines 459-477)                                  *)
(***************************************************************************)
\* lines 460-468, up to the await of startRendering()
handleDownload ==
    /\ Step
    /\ stats.file # 0
    /\ originalBufferRef # 0
    /\ Cardinality(rendering) < MaxRendering
    /\ LET g == FreshId(DOMAIN graphs)
           w == [Transport EXCEPT
                    !.graphs = (g :> setupAudioGraph(settings, "offline")) @@ graphs,
                    !.graphRef = g,
                    !.analyserRef = g]
       IN  /\ rendering' = rendering \cup {g}
           /\ UNCHANGED <<utilVars, analysisVars, tapSilent, appState, fileName, stats, score, isBypassed, liveStats, settings,
                          isChatLoading, audioContextRef, originalBufferRef,
                          meterSmoothingRef, upload, chat, settingsWrites, meterUpdates>>
           /\ Commit(w, FALSE)

\* lines 469-476: the render is complete and the file is handed to the browser
renderComplete ==
    /\ Step
    /\ \E g \in rendering : rendering' = rendering \ {g}
    /\ UNCHANGED <<utilVars, analysisVars, tapSilent, appState, fileName, stats, score, isBypassed, liveStats, settings,
                   isChatLoading, audioContextRef, originalBufferRef, meterSmoothingRef,
                   upload, chat, settingsWrites, meterUpdates>>
    /\ Commit(Transport, FALSE)

(***************************************************************************)
(* Assistant: handleChatSubmit (lines 479-519)                             *)
(***************************************************************************)
\* lines 480-494, up to the await of chatWithAI
handleChatSubmit ==
    /\ Step
    /\ ~isChatLoading
    /\ isChatLoading' = TRUE
    /\ chat' = Closure
    /\ UNCHANGED <<utilVars, analysisVars, tapSilent, appState, fileName, stats, score, isPlaying, isBypassed, liveStats,
                   settings, audioContextRef, sourceNodeRef, originalBufferRef, analyserRef,
                   graphRef, meterSmoothingRef, liveSources, graphs, rendering, upload,
                   settingsWrites, meterUpdates>>

\* one function call of the response (lines 498-509); r holds the transport
\* record, the pending settings and whether a settings update was queued
runCall(r, call, c) ==
    IF call.name = "update_mastering_settings"
    THEN [r EXCEPT !.settings = mergeSettings(r.settings, call.args), !.changed = TRUE]
    ELSE IF call.name = "playback_control"
    THEN [r EXCEPT !.w = IF call.action = "play" THEN playAudio(r.w, c) ELSE handleStop(r.w)]
    ELSE [r EXCEPT !.w = handleSeek(r.w, c)]

RECURSIVE runCalls(_, _, _, _)
runCalls(r, calls, k, c) ==
    IF k > Len(calls) THEN r ELSE runCalls(runCall(r, calls[k], c), calls, k + 1, c)

updateCalls(calls) == {k \in 1..Len(calls) : calls[k].name = "update_mastering_settings"}

\* lines 496-517: the response arrived; its calls run with the closure of the
\* submit, each call counting as a handler run
chatResponse ==
    /\ isChatLoading
    /\ \E calls \in AssistantResponses :
        /\ Steps(Max(1, Len(calls)))
        /\ settingsWrites + Cardinality(updateCalls(calls)) <= MaxSettingsWrites
        /\ LET r == runCalls([w |-> Transport, settings |-> settings, changed |-> FALSE],
                             calls, 1, chat)
           IN  /\ settings' = r.settings
               /\ settingsWrites' = settingsWrites + Cardinality(updateCalls(calls))
               /\ isChatLoading' = FALSE
               /\ chat' = NoClosure
               /\ UNCHANGED <<utilVars, analysisVars, tapSilent, appState, fileName, stats, score, isBypassed, liveStats,
                              audioContextRef, originalBufferRef, meterSmoothingRef,
                              rendering, upload, meterUpdates>>
               /\ Commit(r.w, r.changed)

\* lines 514-517: chatWithAI threw
chatFailed ==
    /\ Step
    /\ isChatLoading
    /\ isChatLoading' = FALSE
    /\ chat' = NoClosure
    /\ UNCHANGED <<utilVars, analysisVars, tapSilent, appState, fileName, stats, score, isPlaying, isBypassed, liveStats,
                   settings, audioContextRef, sourceNodeRef, originalBufferRef, analyserRef,
                   graphRef, meterSmoothingRef, liveSources, graphs, rendering, upload,
                   settingsWrites, meterUpdates>>

(***************************************************************************)
(* makeDistortionCurve: the table (audioUtils.ts:140-150).  An entry is    *)
(* (2 / pi) * atan(x * drive) with x = 2 i / n_samples - 1 and             *)
(* drive = 1 + k / 10.  atan is odd and strictly increasing, so an entry   *)
(* is kept as its argument x * drive, as the numerator over                *)
(* 10 * n_samples, and entries compare, and negate, as their arguments do. *)
(* Neighbouring arguments are 2 * drive / n_samples apart, which moves the *)
(* entry by more than 2.6e-6 for every k in [0,100]: the Float32Array      *)
(* keeps different entries different.                                      *)
(***************************************************************************)
n_samples == 44100

\* the drive amounts tried
CurveAmounts == {0, 1, 10, 55, 100}

\* the indices tried: both ends, the middle, and every CurveStride-th
CurveStride == 441

CurveIndices ==
    {0, 1, n_samples \div 2 - 1, n_samples \div 2, n_samples - 2, n_samples - 1}
    \cup { j * CurveStride : j \in 0..((n_samples - 1) \div CurveStride) }

CurveInputs == [amount : CurveAmounts, index : CurveIndices]

NoCurveInput == [amount |-> 0, index |-> 0]

\* lines 145-147: x * drive of entry i, times 10 * n_samples
curveEntry(amount, i) == (2 * i - n_samples) * (10 + amount)

\* the two entries a WaveShaperNode reads for an input of 0: it looks the
\* input x up at position (n - 1) * (x + 1) / 2 of the curve and interpolates
\* linearly between the entries on both sides
centreEntries(amount) ==
    <<curveEntry(amount, (n_samples - 1) \div 2), curveEntry(amount, n_samples \div 2)>>

\* entry i of the table, its successor (itself for the last one), the entry
\* at the mirrored index, and the entries around the centre
curveAround(in) ==
    [entry  |-> curveEntry(in.amount, in.index),
     next   |-> curveEntry(in.amount, Min(in.index + 1, n_samples - 1)),
     mirror |-> curveEntry(in.amount, n_samples - 1 - in.index),
     centre |-> centreEntries(in.amount)]

NoCurveOutput == [entry |-> 0, next |-> 0, mirror |-> 0, centre |-> <<0, 0>>]

StartCurve ==
    /\ curveIn \in CurveInputs
    /\ curveDone = FALSE
    /\ curveOut = NoCurveOutput

IdleCurve ==
    /\ curveIn = NoCurveInput
    /\ curveDone = FALSE
    /\ curveOut = NoCurveOutput

curveFrame == <<coreUtilVars, meterVars, statsVars, sliceVars, playheadVars, sessionVars>>

TabulateCurve ==
    /\ ~curveDone
    /\ curveDone' = TRUE
    /\ curveOut' = curveAround(curveIn)
    /\ UNCHANGED <<curveIn, curveFrame>>

(***************************************************************************)
(* calculateAudioStats (audioUtils.ts:55-124).  Samples are numerators     *)
(* over SampleDen, so mid = (sL + sR) / 2 is M / (2 * SampleDen) with      *)
(* M = sL + sR, and the sums of the loop are kept as integer numerators:   *)
(*   sumSquares = sumSquaresN / (4 D^2)     stereoSum = stereoSumN / (4 D^2)*)
(*   highSum    = highN / (16 D^2)          lowSum    = lowN / (16 D^2)    *)
(*   peak       = peakN / (2 D)             with D = SampleDen.            *)
(* Results are exact rationals <<numerator, denominator>>.                 *)
(***************************************************************************)
\* longest buffer given frame by frame, in frames
MaxStatFrames == 2
\* longest buffer of constant channels, in whole seconds
MaxStatSeconds == 17

StatRates == {11025} \cup SampleRates

\* sample values tried: full scale, one step, and silence
StatSamples == {-SampleDen, -1, 0, 1, SampleDen}

\* lengths of short buffers of constant channels
ShortLengths == {15, 27}

\* buffers given frame by frame (mono ones have one channel), and longer ones
\* whose channels are constant: frame i of channel c is c[(i % Len(c)) + 1]
StatInputs ==
    { [sampleRate |-> sr, numberOfChannels |-> 2, length |-> 0, constant |-> FALSE,
       left |-> <<0>>, right |-> <<0>>] : sr \in SampleRates }
    \cup UNION { { [sampleRate |-> 44100, numberOfChannels |-> 2, length |-> n,
                    constant |-> FALSE, left |-> l, right |-> r] :
                      l \in [1..n -> StatSamples], r \in [1..n -> StatSamples] } :
                 n \in 1..MaxStatFrames }
    \cup UNION { { [sampleRate |-> 44100, numberOfChannels |-> 1, length |-> n,
                    constant |-> FALSE, left |-> l, right |-> l] :
                      l \in [1..n -> StatSamples] } : n \in 1..MaxStatFrames }
    \cup { [sampleRate |-> sr, numberOfChannels |-> 2, length |-> secs * sr + extra,
            constant |-> TRUE, left |-> <<a>>, right |-> <<b>>] :
              sr \in StatRates, secs \in 12..MaxStatSeconds, extra \in {0, 7},
              a \in StatSamples, b \in StatSamples }
    \cup { [sampleRate |-> sr, numberOfChannels |-> 2, length |-> n,
            constant |-> TRUE, left |-> <<a>>, right |-> <<b>>] :
              sr \in StatRates, n \in ShortLengths,
              a \in StatSamples, b \in StatSamples }

NoStatInput ==
    [sampleRate |-> 44100, numberOfChannels |-> 2, length |-> 0, constant |-> FALSE,
     left |-> <<0>>, right |-> <<0>>]

\* lines 56-57 and 77-78: left[i] and right[i]
leftAt(in, i) == in.left[(i % Len(in.left)) + 1]
rightAt(in, i) == in.right[(i % Len(in.right)) + 1]

Abs(x) == IF x < 0 THEN -x ELSE x

\* lines 70-71 in double precision: (length / sampleRate) * sampleRate falls
\* just below length where the quotient was rounded down, and the floor then
\* loses one sample: (15 / 44100) * 44100 = 14.999999999999998.  Of the buffers
\* tried these are the ones; there is none for which the product is above.
floorLoss(in) ==
    IF \/ in.length = 15 /\ in.sampleRate \in {11025, 44100}
       \/ in.length = 27 /\ in.sampleRate = 48000
    THEN 1 ELSE 0

\* lines 70-76: the window.  buffer.duration is length / sampleRate, so
\* min(duration, 15) * sampleRate is the length below 15 s (but for floorLoss)
\* and 15 * sampleRate from there on; floor(length / 2 - sampleSize / 2) is
\* taken on the doubled value
statsWindow(in) ==
    LET sampleSize  == IF in.length < 15 * in.sampleRate THEN in.length - floorLoss(in)
                       ELSE 15 * in.sampleRate
        startOffset == (in.length - sampleSize) \div 2
        actualStart == Max(0, startOffset)
    IN  [sampleSize |-> sampleSize, actualStart |-> actualStart,
         end |-> Min(actualStart + sampleSize, in.length)]

\* ranges of indices <<first, last>>, empty when first > last
NoReads == <<0, -1>>

hull(a, b) ==
    IF a[1] > a[2] THEN b
    ELSE IF b[1] > b[2] THEN a
    ELSE <<Min(a[1], b[1]), Max(a[2], b[2])>>

\* lines 77-78: left[i] and right[i] for actualStart <= i < end
currentReads(w) == IF w.end <= w.actualStart THEN NoReads ELSE <<w.actualStart, w.end - 1>>

\* a loop that reads left[i-1] in every iteration
previousReadsUnguarded(w) ==
    IF w.end <= w.actualStart THEN NoReads ELSE <<w.actualStart - 1, w.end - 2>>

\* lines 89-91: left[i-1] for actualStart < i < end
previousReads(w) ==
    IF w.end - 1 <= w.actualStart THEN NoReads ELSE <<(w.actualStart + 1) - 1, w.end - 2>>

\* the indices the loop reads
windowReads(w) == hull(currentReads(w), previousReads(w))

\* the sums before the loop; nonZero tells whether a non-zero sample was read
NoSums == [sumSquaresN |-> 0, peakN |-> 0, stereoSumN |-> 0, highN |-> 0, lowN |-> 0,
           subSum |-> 0, nonZero |-> FALSE]

\* one iteration of the loop (lines 77-99)
statsStep(in, acc, i, actualStart) ==
    LET sL  == leftAt(in, i)
        sR  == rightAt(in, i)
        M   == sL + sR
        a1  == [acc EXCEPT !.peakN = Max(@, Abs(M)),
                           !.sumSquaresN = @ + M * M,
                           !.stereoSumN = @ + 4 * sL * sR,
                           !.nonZero = @ \/ sL # 0 \/ sR # 0]
    IN  IF i > actualStart
        THEN LET prev == leftAt(in, i - 1)
             IN  [a1 EXCEPT !.highN = @ + 4 * (M - 2 * prev) * (M - 2 * prev),
                            !.lowN = @ + (M + 2 * prev) * (M + 2 * prev),
                            !.subSum = @ + (IF i % 10 = 0 /\ 10 * Abs(M) > 2 * SampleDen
                                            THEN 1 ELSE 0)]
        ELSE a1

\* the loop of lines 76-100 from index i on
RECURSIVE statsLoop(_, _, _, _)
statsLoop(in, acc, i, w) ==
    IF i >= w.end THEN acc ELSE statsLoop(in, statsStep(in, acc, i, w.actualStart), i + 1, w)

\* the same loop on a buffer whose channels are constant: every iteration adds
\* the same terms, every iteration but the first the spectral ones, and the
\* sub-bass count is the number of multiples of 10 after actualStart
statsLoopConstant(in, w) ==
    LET count == Max(0, w.end - w.actualStart)
        one   == statsStep(in, NoSums, 1, 0)
        tens  == IF count = 0 THEN 0 ELSE ((w.end - 1) \div 10) - (w.actualStart \div 10)
    IN  [sumSquaresN |-> count * one.sumSquaresN,
         peakN |-> IF count = 0 THEN 0 ELSE one.peakN,
         stereoSumN |-> count * one.stereoSumN,
         highN |-> Max(0, count - 1) * one.highN,
         lowN |-> Max(0, count - 1) * one.lowN,
         subSum |-> IF 10 * one.peakN > 2 * SampleDen THEN tens ELSE 0,
         nonZero |-> count > 0 /\ one.nonZero]

\* Math.max(-1, Math.min(1, n / d)) for d > 0 (line 122)
clampUnit(n, d) == IF n > d THEN <<1, 1>> ELSE IF n < -d THEN <<-1, 1>> ELSE <<n, d>>

\* lines 106 and 122: stereoSum / (sumSquares || 1), clamped
stereoCorrelation(sums) ==
    IF sums.sumSquaresN = 0 THEN clampUnit(sums.stereoSumN, 4 * SampleDen * SampleDen)
    ELSE clampUnit(sums.stereoSumN, sums.sumSquaresN)

\* sign of crestFactor = peakDb - rmsDb (lines 102-104 and 114), the sums
\* taken exactly: log10 is increasing, so the sign is that of peak^2 against
\* sumSquares / max(1, sampleSize), and both logarithms take 0.000001 for an
\* argument of 0.  The rounding of the double-precision sum is not followed:
\* where peak and rms are equal here, the rounded sum may lie a few units in
\* the last place to either side of the exact one.
crestSign(sums, sampleSize) ==
    LET n == Max(1, sampleSize)
    IN  IF sums.peakN = 0 /\ sums.sumSquaresN = 0 THEN 0
        ELSE IF sums.peakN = 0 THEN -1
        ELSE IF sums.sumSquaresN = 0 THEN 1
        ELSE IF sums.peakN * sums.peakN * n > sums.sumSquaresN THEN 1
        ELSE IF sums.peakN * sums.peakN * n = sums.sumSquaresN THEN 0
        ELSE -1

\* lines 56-123
calculateAudioStats(in) ==
    LET w     == statsWindow(in)
        sums  == IF in.constant THEN statsLoopConstant(in, w)
                 ELSE statsLoop(in, NoSums, w.actualStart, w)
        total == sums.lowN + sums.highN
    IN  [window |-> w,
         reads |-> windowReads(w),
         silent |-> ~sums.nonZero,
         crestSign |-> crestSign(sums, w.sampleSize),
         lowEnergy |-> IF total = 0 THEN <<0, 1>> ELSE <<sums.lowN, total>>,
         highEnergy |-> IF total = 0 THEN <<0, 1>> ELSE <<sums.highN, total>>,
         subBassEnergy |-> <<10 * sums.subSum, Max(1, w.sampleSize)>>,
         stereoCorrelation |-> stereoCorrelation(sums)]

NoStatOutput ==
    [window |-> [sampleSize |-> 0, actualStart |-> 0, end |-> 0], reads |-> NoReads,
     silent |-> TRUE, crestSign |-> 0, lowEnergy |-> <<0, 1>>, highEnergy |-> <<0, 1>>,
     subBassEnergy |-> <<0, 1>>, stereoCorrelation |-> <<0, 1>>]

StartStats ==
    /\ statsIn \in StatInputs
    /\ statsDone = FALSE
    /\ statsOut = NoStatOutput

IdleStats ==
    /\ statsIn = NoStatInput
    /\ statsDone = FALSE
    /\ statsOut = NoStatOutput

statsFrame == <<coreUtilVars, meterVars, curveVars, playheadVars, sliceVars, sessionVars>>

AnalyzeBuffer ==
    /\ ~statsDone
    /\ statsDone' = TRUE
    /\ statsOut' = calculateAudioStats(statsIn)
    /\ UNCHANGED <<statsIn, statsFrame>>

(***************************************************************************)
(* detectBPM: the slice copied from the buffer (audioUtils.ts:154-173)     *)
(***************************************************************************)
\* longest buffer tried, in whole seconds
MaxSliceSeconds == 70

\* buffers of 0..MaxSliceSeconds whole seconds, and one frame more
SliceInputs ==
    { [sampleRate |-> sr, length |-> secs * sr + extra] :
          sr \in SampleRates, secs \in 0..MaxSliceSeconds, extra \in {0, 1} }

NoSliceInput == [sampleRate |-> 44100, length |-> 0]

NoSliceOutput == [startSample |-> 0, endSample |-> 0, reads |-> <<0, -1>>]

\* line 157: Math.floor((buffer.duration / 2) * buffer.sampleRate), with
\* buffer.duration = length / sampleRate
sliceStart(in) == in.length \div 2

\* lines 156-173: the slice bounds and originalData[startSample + i] for
\* 0 <= i < sliceLength, as the range <<first, last>> of the indices read
detectBPMSlice(in) ==
    LET sliceDuration == 30
        startSample   == sliceStart(in)
        endSample     == Min(in.length, startSample + sliceDuration * in.sampleRate)
        sliceLength   == endSample - startSample
    IN  [startSample |-> startSample, endSample |-> endSample,
         reads |-> IF sliceLength <= 0 THEN <<0, -1>>
                   ELSE <<startSample, startSample + sliceLength - 1>>]

StartSlice ==
    /\ sliceIn \in SliceInputs
    /\ sliceDone = FALSE
    /\ sliceOut = NoSliceOutput

IdleSlice ==
    /\ sliceIn = NoSliceInput
    /\ sliceDone = FALSE
    /\ sliceOut = NoSliceOutput

sliceFrame == <<coreUtilVars, meterVars, curveVars, statsVars, playheadVars, sessionVars>>

CopySlice ==
    /\ ~sliceDone
    /\ sliceDone' = TRUE
    /\ sliceOut' = detectBPMSlice(sliceIn)
    /\ UNCHANGED <<sliceIn, sliceFrame>>

(***************************************************************************)
(* The playhead: the transport handlers of part_000 as they act on         *)
(* currentTime, startOffsetRef, startTimeRef and isPlaying.  Times count   *)
(* 1/TimeDen s, so that 32 beats are a whole number at both tempos the     *)
(* tracks give: 1920/126 s = 320 and 1920/128 s = 315.                     *)
(***************************************************************************)
TimeDen == 21

\* buffer.duration of the decoded tracks: 40 s and 10 s
TrackDurations == <<840, 210>>

trackDuration(f) == IF f = 0 THEN 0 ELSE TrackDurations[((f - 1) % Len(TrackDurations)) + 1]

\* how far AudioContext.currentTime moves between two runs of updateTime
\* that the model looks at: 6 s
FrameGaps == {126}

\* the waveform clicks tried: x / rect.width as <<numerator, denominator>>
ClickRatios == { <<0, 1>>, <<1, 2>>, <<1, 1>> }

\* the variables the playhead handlers leave alone
playheadFrame == <<coreUtilVars, meterVars, curveVars, statsVars, sliceVars, score, isBypassed, liveStats, settings, key, estimators,
                   sourceNodeRef, analyserRef, graphRef, meterSmoothingRef, audioVars, chat,
                   tapSilent, settingsWrites, meterUpdates>>

\* the transport as a record t; c is what the handler's closure holds
Playhead ==
    [isPlaying |-> isPlaying, currentTime |-> currentTime,
     startOffsetRef |-> startOffsetRef, startTimeRef |-> startTimeRef]

PlayheadClosure ==
    [pending |-> TRUE, currentTime |-> currentTime, bpm |-> bpm,
     duration |-> trackDuration(stats.file), isPlaying |-> isPlaying]

NoPlayheadClosure ==
    [pending |-> FALSE, currentTime |-> 0, bpm |-> 0, duration |-> 0, isPlaying |-> FALSE]

\* playAudio(offset) (lines 405-428) on the playhead
playFrom(t, offset) ==
    IF ~audioContextRef \/ originalBufferRef = 0 THEN t
    ELSE [t EXCEPT !.startTimeRef = ctxTime, !.startOffsetRef = offset, !.isPlaying = TRUE]

\* handleStop (lines 430-436) on the playhead
stopPlayhead(t) == [t EXCEPT !.isPlaying = FALSE]

\* handleSeek(time) (lines 442-446)
seekTo(t, c, time) ==
    LET u == [t EXCEPT !.currentTime = time, !.startOffsetRef = time]
    IN  IF c.isPlaying THEN playFrom(u, time) ELSE u

\* (60 / bpm) * 4 * 8 (line 450)
jumpTime(b) == (60 * 4 * 8 * TimeDen) \div b

\* jumpBars(direction) (lines 448-453)
jumpBars(t, c, direction) ==
    IF c.bpm = 0 THEN t
    ELSE seekTo(t, c, Max(0, Min(c.duration, c.currentTime + jumpTime(c.bpm) * direction)))

\* writes the record back
CommitPlayhead(t) ==
    /\ isPlaying' = t.isPlaying
    /\ currentTime' = t.currentTime
    /\ startOffsetRef' = t.startOffsetRef
    /\ startTimeRef' = t.startTimeRef

StartPlayhead ==
    /\ currentTime = 0
    /\ startOffsetRef = 0
    /\ startTimeRef = 0
    /\ ctxTime = 0
    /\ nav = NoPlayheadClosure
    /\ jumped = 0

IdlePlayhead == StartPlayhead

\* handleFileUpload, lines 129-138
loadStarted ==
    /\ Step
    /\ appState # "ANALYZING"
    /\ \E f \in Files :
        /\ fileName' = f
        /\ upload' = [pc |-> "decoding", file |-> f, settings |-> settings]
    /\ audioContextRef' = TRUE
    /\ appState' = "ANALYZING"
    /\ isPlaying' = FALSE
    /\ currentTime' = 0
    /\ startOffsetRef' = 0
    /\ jumped' = 0
    /\ UNCHANGED <<playheadFrame, stats, bpm, originalBufferRef, isChatLoading, startTimeRef,
                   ctxTime, nav>>

\* handleFileUpload, lines 145-165
loadDecoded ==
    /\ Step
    /\ upload.pc = "decoding"
    /\ originalBufferRef' = upload.file
    /\ LET st == trackStatsOf(upload.file)
       IN  stats' = [file |-> upload.file, peak |-> st.peak, rms |-> st.rms,
                     crestFactor |-> st.crestFactor,
                     stereoCorrelation |-> st.stereoCorrelation]
    /\ upload' = [upload EXCEPT !.pc = "detecting"]
    /\ jumped' = 0
    /\ UNCHANGED <<playheadFrame, appState, fileName, isPlaying, bpm, audioContextRef,
                   isChatLoading, currentTime, startOffsetRef, startTimeRef, ctxTime, nav>>

\* handleFileUpload, lines 145-159 throwing, then lines 195-199
loadFailed ==
    /\ Step
    /\ upload.pc = "decoding"
    /\ appState' = "IDLE"
    /\ upload' = [pc |-> "idle", file |-> 0, settings |-> DefaultSettings]
    /\ jumped' = 0
    /\ UNCHANGED <<playheadFrame, fileName, stats, isPlaying, bpm, audioContextRef,
                   originalBufferRef, isChatLoading, currentTime, startOffsetRef,
                   startTimeRef, ctxTime, nav>>

\* handleFileUpload, lines 168-171: setBpm(detectedBpm)
loadDetected ==
    /\ Step
    /\ upload.pc = "detecting"
    /\ \E bpmThrows \in BOOLEAN : bpm' = tryDetectBPM(trackBpmInput(upload.file), bpmThrows)
    /\ upload' = [upload EXCEPT !.pc = "auditing"]
    /\ jumped' = 0
    /\ UNCHANGED <<playheadFrame, appState, fileName, stats, isPlaying, audioContextRef,
                   originalBufferRef, isChatLoading, currentTime, startOffsetRef,
                   startTimeRef, ctxTime, nav>>

\* handleFileUpload, lines 187-194
loadDone ==
    /\ Step
    /\ upload.pc = "auditing"
    /\ appState' = "READY_TO_MASTER"
    /\ upload' = [pc |-> "idle", file |-> 0, settings |-> DefaultSettings]
    /\ jumped' = 0
    /\ UNCHANGED <<playheadFrame, fileName, stats, isPlaying, bpm, audioContextRef,
                   originalBufferRef, isChatLoading, currentTime, startOffsetRef,
                   startTimeRef, ctxTime, nav>>

\* the play button (lines 438-440 and 582), disabled without stats
playClick ==
    /\ Step
    /\ stats.file # 0
    /\ CommitPlayhead(IF isPlaying THEN stopPlayhead(Playhead)
                                   ELSE playFrom(Playhead, currentTime))
    /\ jumped' = 0
    /\ UNCHANGED <<playheadFrame, appState, fileName, stats, bpm, audioContextRef,
                   originalBufferRef, isChatLoading, upload, ctxTime, nav>>

\* Visualizer.handleClick (lines 918-925) with duration = stats?.duration || 0 (line 578)
waveformClick ==
    /\ Step
    /\ trackDuration(stats.file) # 0
    /\ \E ratio \in ClickRatios :
        CommitPlayhead(seekTo(Playhead, PlayheadClosure,
                              (ratio[1] * trackDuration(stats.file)) \div ratio[2]))
    /\ jumped' = 0
    /\ UNCHANGED <<playheadFrame, appState, fileName, stats, bpm, audioContextRef,
                   originalBufferRef, isChatLoading, upload, ctxTime, nav>>

\* the jump buttons (lines 581 and 585), disabled without stats
jumpClick ==
    /\ Step
    /\ stats.file # 0
    /\ \E direction \in {-1, 1} :
        /\ CommitPlayhead(jumpBars(Playhead, PlayheadClosure, direction))
        /\ jumped' = direction
    /\ UNCHANGED <<playheadFrame, appState, fileName, stats, bpm, audioContextRef,
                   originalBufferRef, isChatLoading, upload, ctxTime, nav>>

\* updateTime (lines 369-400) without the meters
updateTime ==
    /\ Step
    /\ isPlaying
    /\ audioContextRef
    /\ \E gap \in FrameGaps : ctxTime' = ctxTime + gap
    /\ LET elapsed    == ctxTime' - startTimeRef
           actualTime == startOffsetRef + elapsed
       IN  IF originalBufferRef # 0 /\ actualTime >= trackDuration(originalBufferRef)
           THEN CommitPlayhead(stopPlayhead(Playhead))
           ELSE CommitPlayhead([Playhead EXCEPT !.currentTime = actualTime])
    /\ jumped' = 0
    /\ UNCHANGED <<playheadFrame, appState, fileName, stats, bpm, audioContextRef,
                   originalBufferRef, isChatLoading, upload, nav>>

\* handleChatSubmit, lines 480-494
navSubmit ==
    /\ Step
    /\ ~isChatLoading
    /\ isChatLoading' = TRUE
    /\ nav' = PlayheadClosure
    /\ jumped' = 0
    /\ UNCHANGED <<playheadFrame, appState, fileName, stats, isPlaying, bpm, audioContextRef,
                   originalBufferRef, upload, currentTime, startOffsetRef, startTimeRef,
                   ctxTime>>

\* one function call of the response (lines 498-509) on the playhead
navCall(t, call, c) ==
    IF call.name = "playback_control"
    THEN IF call.action = "play" THEN playFrom(t, c.currentTime) ELSE stopPlayhead(t)
    ELSE IF call.name = "navigation_control"
    THEN jumpBars(t, c, IF call.action = "forward" THEN 1 ELSE -1)
    ELSE t

RECURSIVE navCalls(_, _, _, _)
navCalls(t, calls, k, c) ==
    IF k > Len(calls) THEN t ELSE navCalls(navCall(t, calls[k], c), calls, k + 1, c)

\* direction of the last navigation_control call, 0 without one
RECURSIVE lastJump(_, _)
lastJump(calls, k) ==
    IF k = 0 THEN 0
    ELSE IF calls[k].name = "navigation_control"
    THEN IF calls[k].action = "forward" THEN 1 ELSE -1
    ELSE lastJump(calls, k - 1)

\* handleChatSubmit, lines 496-517: the response arrived (or chatWithAI threw:
\* no calls)
navResponse ==
    /\ isChatLoading
    /\ \E calls \in AssistantResponses :
        /\ Steps(Max(1, Len(calls)))
        /\ CommitPlayhead(navCalls(Playhead, calls, 1, nav))
        /\ jumped' = lastJump(calls, Len(calls))
    /\ isChatLoading' = FALSE
    /\ nav' = NoPlayheadClosure
    /\ UNCHANGED <<playheadFrame, appState, fileName, stats, bpm, audioContextRef,
                   originalBufferRef, upload, ctxTime>>

NextPlayhead ==
    \/ loadStarted
    \/ loadDecoded
    \/ loadFailed
    \/ loadDetected
    \/ loadDone
    \/ playClick
    \/ waveformClick
    \/ jumpClick
    \/ updateTime
    \/ navSubmit
    \/ navResponse

Init == InitSession /\ IdleWave /\ IdleBpm /\ IdleScore /\ IdleMatrix /\ IdleKey /\ IdlePlayhead /\ IdleSlice /\ IdleStats /\ IdleCurve /\ IdleMeter

Next ==
    \/ handleFileUpload
    \/ Decoded
    \/ DecodeFailed
    \/ Seeded
    \/ Analyzed
    \/ updateSetting
    \/ bypassClick
    \/ trackEnded
    \/ togglePlayback
    \/ seekClick
    \/ updateMeter
    \/ sourceEnded
    \/ handleDownload
    \/ renderComplete
    \/ handleChatSubmit
    \/ chatFailed
    \/ chatResponse

Spec == Init /\ [][Next]_vars

(***************************************************************************)
(* Specifications of the pure helpers                                      *)
(***************************************************************************)
NextWave == SerializeRendered
InitWave == StartWave /\ IdleBpm /\ IdleScore /\ IdleMatrix /\ IdleKey /\ InitSession /\ IdlePlayhead /\ IdleSlice /\ IdleStats /\ IdleCurve /\ IdleMeter
SpecWave == InitWave /\ [][NextWave]_vars

NextBpm == DetectTempo
InitBpm == IdleWave /\ StartBpm /\ IdleScore /\ IdleMatrix /\ IdleKey /\ InitSession /\ IdlePlayhead /\ IdleSlice /\ IdleStats /\ IdleCurve /\ IdleMeter
SpecBpm == InitBpm /\ [][NextBpm]_vars

NextScore == ComputeScore \/ ComputeScoreAgain
InitScore == IdleWave /\ IdleBpm /\ StartScore /\ IdleMatrix /\ IdleKey /\ InitSession /\ IdlePlayhead /\ IdleSlice /\ IdleStats /\ IdleCurve /\ IdleMeter
SpecScore == InitScore /\ [][NextScore]_vars

NextMatrix == ProcessFrame
InitMatrix == IdleWave /\ IdleBpm /\ IdleScore /\ StartMatrix /\ IdleKey /\ InitSession /\ IdlePlayhead /\ IdleSlice /\ IdleStats /\ IdleCurve /\ IdleMeter
SpecMatrix == InitMatrix /\ [][NextMatrix]_vars

NextKey == DetectKey
InitKey == IdleWave /\ IdleBpm /\ IdleScore /\ IdleMatrix /\ StartKey /\ InitSession /\ IdlePlayhead /\ IdleSlice /\ IdleStats /\ IdleCurve /\ IdleMeter
SpecKey == InitKey /\ [][NextKey]_vars

InitPlayhead == IdleWave /\ IdleBpm /\ IdleScore /\ IdleMatrix /\ IdleKey /\ InitSession /\ StartPlayhead /\ IdleSlice /\ IdleStats /\ IdleCurve /\ IdleMeter
SpecPlayhead == InitPlayhead /\ [][NextPlayhead]_vars

NextSlice == CopySlice
InitSlice == IdleWave /\ IdleBpm /\ IdleScore /\ IdleMatrix /\ IdleKey /\ InitSession /\ IdlePlayhead /\ StartSlice /\ IdleStats /\ IdleCurve /\ IdleMeter
SpecSlice == InitSlice /\ [][NextSlice]_vars

NextStats == AnalyzeBuffer
InitStats == IdleWave /\ IdleBpm /\ IdleScore /\ IdleMatrix /\ IdleKey /\ InitSession /\ IdlePlayhead /\ IdleSlice /\ StartStats /\ IdleCurve /\ IdleMeter
SpecStats == InitStats /\ [][NextStats]_vars

NextCurve == TabulateCurve
InitCurve == IdleWave /\ IdleBpm /\ IdleScore /\ IdleMatrix /\ IdleKey /\ InitSession /\ IdlePlayhead /\ IdleSlice /\ IdleStats /\ StartCurve /\ IdleMeter
SpecCurve == InitCurve /\ [][NextCurve]_vars

NextMeter ==
    \/ handleFileUpload
    \/ Decoded
    \/ Seeded
    \/ Analyzed
    \/ togglePlayback
    \/ animationFrame
InitMeter == InitSession /\ IdleWave /\ IdleBpm /\ IdleScore /\ IdleMatrix /\ IdleKey /\ IdlePlayhead /\ IdleSlice /\ IdleStats /\ IdleCurve /\ StartMeter
SpecMeter == InitMeter /\ [][NextMeter]_vars

(***************************************************************************)
(* C1: bufferToWave stores the 16-bit sample of every frame i in 0..len-1, *)
(* channel c, at byte offset 44 + 2*(i*C + c): no frame is skipped and no  *)
(* frame is left as zero padding.                                          *)
(***************************************************************************)
C1_EveryFrameStored ==
    wavDone =>
        \A i \in 0..(abuffer.length - 1) : \A c \in 0..(abuffer.numberOfChannels - 1) :
            getInt16(wavBlob, 44 + 2 * (i * abuffer.numberOfChannels + c))
                = toPCM16(abuffer.channels[c][i])

(***************************************************************************)
(* C2: starting an export while a live graph exists leaves the live graph  *)
(* handle bound to the live instance: as long as a source keeps feeding a  *)
(* live graph, graphRef stays on that graph and every settings change      *)
(* retargets that graph's parameters to the new settings.                  *)
(***************************************************************************)
C2_LiveHandleBound ==
    [][\A s \in liveSources \cap liveSources' :
          s.to # 0 =>
              /\ graphRef' = s.to
              /\ (settings' # settings => graphs'[s.to].params = graphParams(settings'))]_vars

(***************************************************************************)
(* C3: once an export has started, the offline graph keeps the settings    *)
(* snapshot taken at export start: no step taken while its render is in    *)
(* flight modifies or retargets any of its parameters.                     *)
(***************************************************************************)
C3_OfflineSnapshotFrozen ==
    [][\A g \in rendering \cap rendering' : graphs'[g] = graphs[g]]_vars

(***************************************************************************)
(* C4: every settings value that enters a graph lies within its documented *)
(* range: EQ gains and input gain in [-12,12] dB, saturation in [0,100],   *)
(* stereo width in [0,200], limiter ceiling in [-3,0] dB, thresholds       *)
(* within the compressor's range.                                          *)
(***************************************************************************)
Within(v, range) == range[1] <= v /\ v <= range[2]

C4_GraphValuesInRange ==
    \A g \in DOMAIN graphs :
        LET p == graphs[g].params
        IN  /\ p.inputGain.pow10[2] = 2000
            /\ Within(p.inputGain.pow10[1], KnobRange.inputGain)
            /\ Within(p.lowShelf, KnobRange.eqLow)
            /\ Within(p.midPeaking, KnobRange.eqMid)
            /\ Within(p.highShelf, KnobRange.eqHigh)
            /\ Within(p.saturation.drive[1] - 10, KnobRange.saturation)
            /\ Within(p.sideGain[1], KnobRange.stereoWidth)
            /\ Within(p.limiter, KnobRange.limiterCeiling)
            /\ Within(p.mbLow, ThresholdRange)
            /\ Within(p.mbMid, ThresholdRange)
            /\ Within(p.mbHigh, ThresholdRange)

(***************************************************************************)
(* C6: toggling bypass while playing rebuilds the live routing: after the  *)
(* toggle a source is playing and it feeds the destination directly if and *)
(* only if the bypass flag is on.                                          *)
(***************************************************************************)
C6_BypassToggleReroutes ==
    [][(isPlaying /\ isBypassed' # isBypassed) =>
          /\ isPlaying'
          /\ liveSources' # {}
          /\ \A s \in liveSources' : (s.to = 0) <=> isBypassed']_vars

(***************************************************************************)
(* C7: after a load attempt that fails the session is idle and the         *)
(* displayed file name, the held track buffer and the stats never refer to *)
(* different files.                                                        *)
(***************************************************************************)
C7_FailedLoadUnloaded ==
    (upload.pc = "idle" /\ appState # "READY_TO_MASTER" /\ fileName # 0) =>
        /\ appState = "IDLE"
        /\ originalBufferRef \in {0, fileName}
        /\ stats.file \in {0, fileName}

(***************************************************************************)
(* C8: after stop() and after a track change the live meter is reset to    *)
(* silence: the displayed RMS/peak and the smoothing state both equal      *)
(* -100 dB whenever nothing is playing.                                    *)
(***************************************************************************)
C8_MeterResetWhenStopped ==
    ~isPlaying => (liveStats = MeterSilence /\ meterSmoothingRef = MeterSilence)

(***************************************************************************)
(* C9: bufferToWave emits exactly 44 + len*C*2 bytes and the header states *)
(* RIFF size = total - 8, format tag 1, channel count C, sample rate sr,   *)
(* byte rate sr*C*2, block align C*2, 16 bits per sample and data length   *)
(* len*C*2.                                                                *)
(***************************************************************************)
C9_HeaderCorrect ==
    wavDone =>
        LET C == abuffer.numberOfChannels
            total == 44 + abuffer.length * C * 2
        IN  /\ Len(wavBlob) = total
            /\ getUint32(wavBlob, 4) = total - 8
            /\ getUint16(wavBlob, 20) = 1
            /\ getUint16(wavBlob, 22) = C
            /\ getUint32(wavBlob, 24) = abuffer.sampleRate
            /\ getUint32(wavBlob, 28) = abuffer.sampleRate * C * 2
            /\ getUint16(wavBlob, 32) = C * 2
            /\ getUint16(wavBlob, 34) = 16
            /\ getUint32(wavBlob, 40) = abuffer.length * C * 2

C9_Witness ==
    /\ wavDone
    /\ abuffer.numberOfChannels = 2
    /\ abuffer.length = MaxFrames
    /\ Len(wavBlob) = 44 + MaxFrames * 4

(***************************************************************************)
(* C5: for every nonzero modal inter-peak interval and every sample rate,  *)
(* the BPM returned by detectBPM lies in [110,155].                        *)
(***************************************************************************)
C5_BpmInRange ==
    (bpmDone /\ bestIntervalOf(bpmIn) # 0) => (bpmOut >= 110 /\ bpmOut <= 155)

(***************************************************************************)
(* C10: calculateProductionScore returns 100 minus the sum of exactly the  *)
(* applicable penalties, with strict comparisons at each threshold; stats  *)
(* {peak:-0.05, crestFactor:3, stereoCorrelation:-0.2} give 10.            *)
(***************************************************************************)
C10_PenaltySum ==
    scoreDone =>
        /\ scoreOut = 100 - (IF scoreIn.peak > -10 THEN 30 ELSE 0)
                          - (IF scoreIn.crestFactor < 400 THEN 20 ELSE 0)
                          - (IF scoreIn.crestFactor > 1500 THEN 15 ELSE 0)
                          - (IF scoreIn.stereoCorrelation < 0 THEN 40 ELSE 0)
                          - (IF scoreIn.stereoCorrelation > 95 THEN 10 ELSE 0)
        /\ (scoreIn = [peak |-> -5, crestFactor |-> 300, stereoCorrelation |-> -20]
                => scoreOut = 10)

C10_Witness ==
    /\ scoreDone
    /\ scoreIn = [peak |-> -5, crestFactor |-> 300, stereoCorrelation |-> -20]
    /\ scoreOut = 10

C12_MidSideMatrix ==
    msDone =>
        LET L == <<msIn.L, SampleDen>>
            R == <<msIn.R, SampleDen>>
            w == msIn.width
        IN  /\ ratEq(msOut.L, <<100 * (msIn.L + msIn.R) + w * (msIn.L - msIn.R), 200 * SampleDen>>)
            /\ ratEq(msOut.R, <<100 * (msIn.L + msIn.R) - w * (msIn.L - msIn.R), 200 * SampleDen>>)
            /\ (w = 100 => ratEq(msOut.L, L) /\ ratEq(msOut.R, R))
            /\ (w = 0 => /\ ratEq(msOut.L, msOut.R)
                         /\ ratEq(msOut.L, <<msIn.L + msIn.R, 2 * SampleDen>>))

C12_Witness ==
    /\ msDone
    /\ msIn = [L |-> SampleDen, R |-> -1, width |-> 100]
    /\ ratEq(msOut.L, <<1, 1>>)
    /\ ratEq(msOut.R, <<-1, SampleDen>>)

(***************************************************************************)
(* C14: analyzeKeyReal maps a detected fundamental of 440 Hz and of 880 Hz *)
(* to "A"; for every fundamental f of the searched range f and 2f get the  *)
(* same note name, and the name is one of the twelve notes, never          *)
(* "Unknown".                                                              *)
(***************************************************************************)
C14_KeyMapping ==
    (keyDone /\ keyIn.bestOffset # -1) =>
        /\ \E i \in 1..12 : keyOut = NOTES[i]
        /\ jsRem(midiNumber(keyIn.sampleRate, keyIn.bestOffset), 12) \in 0..11
        /\ keyOut = noteName(midiNumber(2 * keyIn.sampleRate, keyIn.bestOffset))
        /\ (keyIn.sampleRate = 440 * keyIn.bestOffset => keyOut = "A")
        /\ (keyIn.sampleRate = 880 * keyIn.bestOffset => keyOut = "A")

C14_Witness ==
    /\ keyDone
    /\ keyIn = [sampleRate |-> 44000, bestOffset |-> 50]
    /\ keyOut = "A"

C15_EstimatorFailureNonFatal ==
    /\ estimators.bpmFailed => bpm = 128
    /\ estimators.keyFailed => key = "Unknown"
    /\ (estimators.bpmFailed \/ estimators.keyFailed) =>
           appState = IF upload.pc = "idle" THEN "READY_TO_MASTER" ELSE "ANALYZING"

C15_Witness ==
    /\ estimators = [bpmFailed |-> TRUE, keyFailed |-> TRUE]
    /\ bpm = 128
    /\ key = "Unknown"
    /\ upload.pc = "idle"
    /\ appState = "READY_TO_MASTER"

(***************************************************************************)
(* C16: an update naming a subset of the settings fields (a knob change or *)
(* an assistant update_mastering_settings call) is applied in one step:    *)
(* the named fields take the new values, every other field keeps its       *)
(* value, and the retargeted graph holds the parameters of the complete    *)
(* new settings.                                                           *)
(***************************************************************************)
SettingsUpdates == {d[1] :> knobValue(d[1], d[2]) : d \in KnobDrags} \cup AssistantArgs

C16_AtomicPartialUpdate ==
    [][settingsWrites' # settingsWrites =>
          /\ \E seq \in [1..(settingsWrites' - settingsWrites) -> SettingsUpdates] :
                \A k \in SettingKeys :
                    LET naming == {i \in DOMAIN seq : k \in DOMAIN seq[i]}
                        last   == CHOOSE i \in naming : \A j \in naming : j <= i
                    IN  settings'[k] = IF naming = {} THEN settings[k] ELSE seq[last][k]
          /\ (graphRef' # 0 /\ audioContextRef') =>
                graphs'[graphRef'].params = graphParams(settings')]_vars

C16_Witness ==
    /\ settingsWrites = 1
    /\ settings = [DefaultSettings EXCEPT !.saturation = 50, !.stereoWidth = 150]
    /\ graphRef # 0
    /\ \E s \in liveSources : s.to = graphRef
    /\ graphs[graphRef].params = graphParams(settings)
    /\ graphs[graphRef].timeConstant = 5

(***************************************************************************)
(* C17: for equal settings the graph built for live playback and the graph *)
(* built for offline export have the same nodes with the same parameter    *)
(* values and the same connections in the same order, differing only in    *)
(* the destination; the fixed values are those of the mastering chain      *)
(* (25 Hz highpass, 100 Hz / 1 kHz / 10 kHz EQ, ratios 2.5 / 2 / 1.5,      *)
(* limiter ratio 20 with 2 ms attack) and every path from the input to the *)
(* destination passes through the limiter and then the tap.                *)
(***************************************************************************)
Destinations == {destinationOf(ctx) : ctx \in {"live", "offline"}}

\* for each destination: it is reachable from the input, but not without the
\* limiter and not without the analyser, and the analyser follows the limiter
LimiterThenTap ==
    [dest \in Destinations |->
        LET conns == graphConnections(dest)
            edges == {conns[k] : k \in DOMAIN conns}
            without(n) == {e \in edges : e.from # n /\ e.to # n}
        IN  /\ dest \in reach({"inputGainNode"}, edges)
            /\ dest \notin reach({"inputGainNode"}, without("limiter"))
            /\ dest \notin reach({"inputGainNode"}, without("analyser"))
            /\ "analyser" \in reach({"limiter"}, edges)
            /\ "limiter" \notin reach({"analyser"}, edges)]

\* the connect calls for two destinations are the same up to the destination
SameConnections ==
    [d \in Destinations \X Destinations |->
        LET a == graphConnections(d[1])
            b == graphConnections(d[2])
        IN  /\ Len(a) = Len(b)
            /\ \A k \in 1..(Len(a) - 1) : a[k] = b[k]
            /\ a[Len(a)].from = b[Len(b)].from
            /\ a[Len(a)].to = d[1] /\ b[Len(b)].to = d[2]]

C17_SameTopology ==
    \A g \in DOMAIN graphs :
        LET nodes == graphNodes(graphs[g].params)
            dest  == destinationOf(graphs[g].ctx)
        IN  /\ nodes.rumbleFilter = [type |-> "highpass", frequency |-> 25]
            /\ nodes.saturationNode.type = "waveshaper"
            /\ nodes.lowShelf.type = "lowshelf" /\ nodes.lowShelf.frequency = 100
            /\ nodes.midPeaking.type = "peaking" /\ nodes.midPeaking.frequency = 1000
            /\ nodes.highShelf.type = "highshelf" /\ nodes.highShelf.frequency = 10000
            /\ nodes.lowComp.ratio = <<25, 10>>
            /\ nodes.midComp.ratio = <<2, 1>>
            /\ nodes.highComp.ratio = <<15, 10>>
            /\ nodes.limiter.ratio = <<20, 1>> /\ nodes.limiter.attack = 2
            /\ LimiterThenTap[dest]
            /\ \A h \in DOMAIN graphs :
                  graphs[h].params = graphs[g].params =>
                      /\ graphNodes(graphs[h].params) = nodes
                      /\ SameConnections[<<dest, destinationOf(graphs[h].ctx)>>]

C17_Witness ==
    \E g \in DOMAIN graphs, h \in rendering :
        /\ graphs[g].ctx = "live"
        /\ graphs[h].ctx = "offline"
        /\ graphs[g].params = graphs[h].params
        /\ \E s \in liveSources : s.to = g

(***************************************************************************)
(* C18: load-time seeding writes only inputGain and the three multiband    *)
(* thresholds; every other settings field keeps the value it had just      *)
(* before seeding, so no update made during the analysis is lost.          *)
(***************************************************************************)
SeededKeys == {"inputGain", "mbLowThreshold", "mbMidThreshold", "mbHighThreshold"}

C18_SeedingKeepsOtherFields ==
    [][(upload.pc = "detecting" /\ upload'.pc = "auditing") =>
          \A k \in SettingKeys \ SeededKeys : settings'[k] = settings[k]]_vars

(***************************************************************************)
(* C19: at most one live source node is started and not yet stopped at any *)
(* moment.                                                                 *)
(***************************************************************************)
C19_SingleLiveSource == Cardinality(liveSources) <= 1

C19_Witness ==
    /\ isPlaying
    /\ rendering = {}
    /\ analyserRef # 0
    /\ graphRef = 0
    /\ liveSources = {[id |-> sourceNodeRef, to |-> 0]}

(***************************************************************************)
(* C20: while playing, every meter update reads the tap of the graph that  *)
(* the playing source feeds, never the tap of a torn-down earlier graph or *)
(* of an offline export graph.                                             *)
(***************************************************************************)
C20_MeterReadsLiveTap ==
    [][meterUpdates' # meterUpdates =>
          /\ graphs[analyserRef].ctx = "live"
          /\ \E s \in liveSources : s.id = sourceNodeRef /\ s.to = analyserRef]_vars

(***************************************************************************)
(* C21: whenever isPlaying is false, no live source node is started and    *)
(* still producing output.                                                 *)
(***************************************************************************)
C21_StoppedMeansSilent == ~isPlaying => liveSources = {}

(***************************************************************************)
(* C22: the playhead (currentTime and the start offset) lies within        *)
(* [0, duration of the held track buffer], and a jump moves the playhead   *)
(* by exactly 32 beats at the detected BPM, clamped to that range.         *)
(***************************************************************************)
heldDuration == trackDuration(originalBufferRef)

C22_PlayheadInRange ==
    /\ [](/\ 0 <= currentTime /\ currentTime <= heldDuration
          /\ 0 <= startOffsetRef /\ startOffsetRef <= heldDuration)
    /\ [][jumped' # 0 =>
            currentTime' = Max(0, Min(heldDuration, currentTime + jumped' * jumpTime(bpm)))]_vars

(***************************************************************************)
(* C23: every settings change made while a source feeds a live graph       *)
(* retargets that graph's parameters to the values derived from the new    *)
(* settings with time constant 0.05 s, and whenever settings are not       *)
(* changing the parameters of the graph a source feeds are the values      *)
(* derived from the latest settings.                                       *)
(***************************************************************************)
C23_LiveTargetsFollowSettings ==
    /\ [][\A s \in liveSources \cap liveSources' :
            (s.to # 0 /\ settings' # settings) =>
                graphs'[s.to] = [ctx |-> "live", params |-> graphParams(settings'),
                                 timeConstant |-> 5]]_vars
    /\ [](\A s \in liveSources : s.to # 0 => graphs[s.to].params = graphParams(settings))

(***************************************************************************)
(* C24: detectBPM analyses a slice of at most 30 seconds centered on the   *)
(* buffer midpoint: it starts 15 s before the midpoint (or at sample 0),   *)
(* ends 15 s after it (or at the buffer end), and every index it reads     *)
(* lies in [0, buffer.length).                                             *)
(***************************************************************************)
C24_SliceCentered ==
    sliceDone =>
        LET mid == sliceIn.length \div 2
            sr  == sliceIn.sampleRate
        IN  /\ sliceOut.endSample - sliceOut.startSample <= 30 * sr
            /\ sliceOut.startSample = Max(0, mid - 15 * sr)
            /\ sliceOut.endSample = Min(sliceIn.length, mid + 15 * sr)
            /\ sliceOut.reads[1] <= sliceOut.reads[2] =>
                   /\ 0 <= sliceOut.reads[1]
                   /\ sliceOut.reads[2] < sliceIn.length

(***************************************************************************)
(* C25: stereoCorrelation is always in [-1,1], is 1 for every non-silent   *)
(* window with identical left and right channels, and is -1 for every      *)
(* non-silent window whose right channel is the negation of the left,      *)
(* whatever the signal level.                                              *)
(***************************************************************************)
sameChannels(in) == \A k \in DOMAIN in.left : in.right[k] = in.left[k]

negatedChannels(in) == \A k \in DOMAIN in.left : in.right[k] = -in.left[k]

C25_CorrelationNormalized ==
    statsDone =>
        LET c == statsOut.stereoCorrelation
        IN  /\ -c[2] <= c[1] /\ c[1] <= c[2]
            /\ (~statsOut.silent /\ sameChannels(statsIn)) => c[1] = c[2]
            /\ (~statsOut.silent /\ negatedChannels(statsIn)) => c[1] = -c[2]

(***************************************************************************)
(* C26: the fractions returned by calculateAudioStats are proper           *)
(* fractions for every buffer length and sample rate: subBassEnergy,       *)
(* lowEnergy and highEnergy each lie in [0,1], and lowEnergy + highEnergy  *)
(* is 1 whenever the window is not silent.                                 *)
(***************************************************************************)
properFraction(q) == 0 <= q[1] /\ q[1] <= q[2]

C26_ProperFractions ==
    statsDone =>
        /\ properFraction(statsOut.subBassEnergy)
        /\ properFraction(statsOut.lowEnergy)
        /\ properFraction(statsOut.highEnergy)
        /\ ~statsOut.silent =>
               /\ statsOut.lowEnergy[2] = statsOut.highEnergy[2]
               /\ statsOut.lowEnergy[1] + statsOut.highEnergy[1] = statsOut.lowEnergy[2]

C27_CurveOddMonotonic ==
    curveDone =>
        /\ curveOut.entry <= curveOut.next
        /\ curveOut.mirror = -curveOut.entry
        /\ curveOut.centre[1] + curveOut.centre[2] = 0

(***************************************************************************)
(* C29: at every meter update the smoothed peak is not below the           *)
(* instantaneous peak of that update: it is the instantaneous peak when    *)
(* that is above the value the decay gives, and otherwise it has moved     *)
(* from the previous smoothed peak toward the instantaneous peak by one    *)
(* tenth of the gap; and two meter updates are at least 50 ms apart.       *)
(***************************************************************************)
C29_PeakHoldAndThrottle ==
    [][meterUpdates' = meterUpdates + 1 =>
          LET dbPeak == meterIn'[2] * MeterUnit
              before == meterSmoothingRef.peak
              after  == meterSmoothingRef'.peak
          IN  /\ after >= dbPeak
              /\ IF 10 * dbPeak > 9 * before + dbPeak
                 THEN after = dbPeak
                 ELSE 10 * (after - before) = dbPeak - before
              /\ meterUpdates >= 1 => lastMeterUpdateRef' - lastMeterUpdateRef >= 50]_vars

\* a second update, later than the first, found a quieter window: the
\* smoothed peak decays and stays above the instantaneous one
C29_Witness ==
    /\ meterUpdates >= 2
    /\ lastMeterUpdateRef > StartMillis + 50
    /\ meterSmoothingRef.peak > meterIn[2] * MeterUnit
    /\ meterSmoothingRef.peak < -6 * MeterUnit

====
